---- MODULE Spec2Model ----
(***************************************************************************)
(* Content verification: the decision made by TrainedModelAnalyzer         *)
(* (content-verify-&-decision-predict/app/trained_model_analyzer.py).      *)
(*                                                                         *)
(* Numbers: a confidence is an integer number of 1/100000 (so 0.15 is      *)
(* 15000 and 1.0 is 100000); round(x, 4) keeps multiples of 10.            *)
(* Strings: Python strings are TLA+ strings; str.lower is the table        *)
(* LowerStr over the strings the model uses.  None is the value None.      *)
(* A text is a sequence of whitespace-separated tokens.                    *)
(***************************************************************************)
EXTENDS Integers, Sequences, FiniteSets, TLC

\* ------------------------------------------------------------------------
\* Bounds of the model
\* ------------------------------------------------------------------------
MaxWords == 2

\* ------------------------------------------------------------------------
\* Values
\* ------------------------------------------------------------------------
None == "<None>"

NoException == "<no exception>"

\* Tokens a text is made of: a stop word, a word of two letters, a number,
\* a URL, and a capitalised word that survives preprocessing.
Tokens == {"the", "ai", "42", "http://x.io", "Laptop"}

Texts == UNION {[1..n -> Tokens] : n \in 0..MaxWords}

\* str.lower() on the strings of the model
LowerStr(s) ==
    CASE s = "Laptop" -> "laptop"
      [] s = "Education" -> "education"
      [] OTHER -> s

\* re.sub(r'https?://\S+|www\.\S+', '', text): the token is a URL
IsUrl(tok) == tok \in {"http://x.io"}

\* re.sub(r'[^a-zA-Z\s]', ' ', text): what is left of a token, as words
LettersOf(tok) ==
    CASE tok = "42" -> <<>>
      [] OTHER -> <<tok>>

stop_words == {"the", "and", "for", "with", "our", "now"}

RECURSIVE FlatWords(_)
FlatWords(text) ==
    IF text = <<>> THEN <<>>
    ELSE LET tok == LowerStr(Head(text))
         IN  (IF IsUrl(tok) THEN <<>> ELSE LettersOf(tok)) \o FlatWords(Tail(text))

\* TextPreprocessor.preprocess: the list of words that are joined by ' '
preprocess(text) ==
    IF text = <<>> THEN <<>>
    ELSE SelectSeq(FlatWords(text), LAMBDA w : w \notin stop_words /\ Len(w) > 2)

\* ------------------------------------------------------------------------
\* Categories, domains and business profiles
\* ------------------------------------------------------------------------
restricted_categories == {"weapons", "drugs", "adult_content", "gambling"}

\* category_mapping.json as written by train_models.py: class id -> name,
\* ids numbered over the sorted category names; the categories are three of
\* the safe categories of the dataset generator and the four restricted ones.
category_mapping ==
    [i \in 0..6 |-> CASE i = 0 -> "adult_content"
                      [] i = 1 -> "beauty"
                      [] i = 2 -> "drugs"
                      [] i = 3 -> "education"
                      [] i = 4 -> "electronics"
                      [] i = 5 -> "gambling"
                      [] OTHER -> "weapons"]

\* Class ids the category model may return; 7 is an id the mapping lacks.
ClassIds == 0..7

\* self.category_mapping.get(str(int(category_pred)), "unknown")
MappingGet(pred) ==
    IF pred \in DOMAIN category_mapping THEN category_mapping[pred] ELSE "unknown"

\* business_profiles.json as written by the dataset generator, cut down to
\* the modelled categories: a marketplace and a single-domain business.
GeneratedProfiles ==
    [b \in {"M001", "B057"} |->
        IF b = "M001" THEN [name |-> "Amazon India", domains |-> <<"electronics", "beauty">>]
                      ELSE [name |-> "Education Specialist B057", domains |-> <<"education">>]]

\* mutant: a store that answers every lookup of X999 with a profile
EmptyProfiles_Sample == [b \in {"X999"} |-> [name |-> "", domains |-> <<"beauty">>]]

\* _load_business_profiles returns {} when the file does not exist
EmptyProfiles == [b \in {} |-> [name |-> "", domains |-> <<>>]]

\* Arguments a caller may pass
RegisteredDomains == {"education", "beauty", "electronics", "Education", "gambling"}

BusinessIds == {None, "", "M001", "B057", "X999"}

\* Confidences the models may report (max of predict_proba)
ConfValues == {0, 14995, 14999, 15000, 99000}

\* the threshold 0.15 of analyze_content
ConfidenceThreshold == 15000

\* round(x, 4), half to even
Round4(x) ==
    LET q == x \div 10
        r == x % 10
    IN  IF r < 5 THEN 10 * q
        ELSE IF r > 5 THEN 10 * (q + 1)
        ELSE IF q % 2 = 0 THEN 10 * q ELSE 10 * (q + 1)

\* Python truthiness of the business_id argument
Truthy(b) == b # None /\ b # ""

\* [d.lower() for d in business_allowed_domains]
LowerAll(ds) == [i \in DOMAIN ds |-> LowerStr(ds[i])]

SeqRange(sq) == {sq[i] : i \in DOMAIN sq}

\* ------------------------------------------------------------------------
\* Exceptions the collaborators may raise, by the place that raises
\* ------------------------------------------------------------------------
FaultPoints == {"preprocess", "vectorize", "category_model", "decision_model", "profile_lookup"}

\* str(e) of the exception raised at a fault point
ExcMessage(fault) ==
    CASE fault = "preprocess" -> "expected string or bytes-like object"
      [] fault = "vectorize" -> "vectorizer not fitted"
      [] fault = "category_model" -> "X has a different number of features"
      [] fault = "decision_model" -> "decision model has no predict_proba"
      [] fault = "profile_lookup" -> "'NoneType' object is not iterable"
      [] OTHER -> NoException

ModelNotFoundMessage == "Model not found: category_classifier.pkl. Please run train_models.py first."

CorruptModelMessage == "invalid load key"

CorruptProfilesMessage == "Expecting value: line 1 column 1 (char 0)"

\* ------------------------------------------------------------------------
\* The dictionaries analyze_content returns
\* ------------------------------------------------------------------------
\* mutant: a status outside the documented literals
EmptyTextDict_ShortStatus ==
    [status |-> "Flagged",
     reason |-> [text |-> "Text is too short or contains no meaningful content."],
     confidence_score |-> 0,
     detected_category |-> "other"]

\* lines 92-97: text empty after preprocessing
EmptyTextDict ==
    [status |-> "Flagged for Manual Review",
     reason |-> [text |-> "Text is too short or contains no meaningful content."],
     confidence_score |-> 0,
     detected_category |-> "other"]

\* mutant: the handler drops the exception message
MethodErrorDict_NoMessage(msg) ==
    [status |-> "Error",
     reason |-> [text |-> "An error occurred during analysis."],
     confidence_score |-> 0,
     detected_category |-> "error"]

\* lines 217-225: except Exception in the method
MethodErrorDict(msg) ==
    [status |-> "Error",
     reason |-> [text |-> "An error occurred during analysis: {e}", e |-> msg],
     confidence_score |-> 0,
     detected_category |-> "error",
     error |-> msg]

\* lines 237-245: except FileNotFoundError in the module-level function
NotTrainedDict(msg) ==
    [status |-> "Error",
     reason |-> [text |-> "Models not trained yet. Please run: python train_models.py"],
     confidence_score |-> 0,
     detected_category |-> "error",
     error |-> msg]

\* lines 246-254: except Exception in the module-level function
FunctionErrorDict(msg) ==
    [status |-> "Error",
     reason |-> [text |-> "An error occurred: {e}", e |-> msg],
     confidence_score |-> 0,
     detected_category |-> "error",
     error |-> msg]

\* ------------------------------------------------------------------------
\* TrainedModelAnalyzer.analyze_content, lines 127-215
\* ------------------------------------------------------------------------
\* mutant: the comparison without .lower()
domain_match_CaseSensitive(detected_category, registered_domain) ==
    detected_category = registered_domain

\* line 128
domain_match(detected_category, registered_domain) ==
    LowerStr(detected_category) = LowerStr(registered_domain)

\* mutant: the stored profile is never consulted
ProfileFound_Never(business_id, profiles) ==
    FALSE

\* line 135: business_id and business_id in self.business_profiles
ProfileFound(business_id, profiles) ==
    Truthy(business_id) /\ business_id \in DOMAIN profiles

\* mutant: the profile's domains are ignored for the declared domain
business_allowed_domains_Declared(registered_domain, business_id, profiles) ==
    <<registered_domain>>

\* lines 132, 137, 151
business_allowed_domains(registered_domain, business_id, profiles) ==
    IF ProfileFound(business_id, profiles)
    THEN LET business_info == profiles[business_id]
         IN  IF "domains" \in DOMAIN business_info
             THEN business_info.domains
             ELSE <<registered_domain>>
    ELSE <<registered_domain>>

\* mutant: the registered domain is never validated against the profile
is_registered_domain_valid_Always(registered_domain, business_id, profiles) ==
    TRUE

\* lines 133, 141, 150
is_registered_domain_valid(registered_domain, business_id, profiles) ==
    IF ProfileFound(business_id, profiles)
    THEN LowerStr(registered_domain) \in
            SeqRange(LowerAll(business_allowed_domains(registered_domain, business_id, profiles)))
    ELSE TRUE

\* mutant: a business may post any category among its allowed domains
is_allowed_in_business_domains_AnyAllowed(detected_category, registered_domain, business_id, profiles) ==
    IF ProfileFound(business_id, profiles)
    THEN LowerStr(detected_category) \in
            SeqRange(LowerAll(business_allowed_domains(registered_domain, business_id, profiles)))
    ELSE domain_match(detected_category, registered_domain)

\* lines 131, 142, 149
is_allowed_in_business_domains(detected_category, registered_domain, business_id, profiles) ==
    IF ProfileFound(business_id, profiles)
    THEN domain_match(detected_category, registered_domain)
            /\ is_registered_domain_valid(registered_domain, business_id, profiles)
    ELSE domain_match(detected_category, registered_domain)

\* mutant: gambling is missing from the restricted list
IsRestricted_NoGambling(detected_category) ==
    detected_category \in {"weapons", "drugs", "adult_content"}

\* line 161: detected_category in restricted_categories
IsRestricted(detected_category) == detected_category \in restricted_categories

\* mutant: the threshold compared with <=
BelowThreshold_Inclusive(category_confidence) ==
    category_confidence <= ConfidenceThreshold

\* mutant: a threshold of 0.10
BelowThreshold_Lowered(category_confidence) ==
    category_confidence < 10000

\* line 175: category_confidence < 0.15
BelowThreshold(category_confidence) == category_confidence < ConfidenceThreshold

\* lines 157-201: the if/elif chain that sets status and reason
Decide(detected_category, category_confidence, registered_domain, business_id, profiles) ==
    LET allowed == is_allowed_in_business_domains(detected_category, registered_domain,
                                                  business_id, profiles)
        valid   == is_registered_domain_valid(registered_domain, business_id, profiles)
        domains == business_allowed_domains(registered_domain, business_id, profiles)
    IN  IF detected_category = "unknown"
        THEN [status |-> "Flagged for Manual Review",
              reason |-> [text |-> "Unable to determine content category."]]
        ELSE IF IsRestricted(detected_category)
        THEN [status |-> "Rejected: Restricted Content",
              reason |-> [text |-> "Content classified as '{detected_category}' which is restricted for all businesses.",
                          detected_category |-> detected_category]]
        ELSE IF Truthy(business_id) /\ ~valid
        THEN [status |-> "Rejected: Invalid Registered Domain",
              reason |-> [text |-> "Registered domain '{registered_domain}' is not allowed for business '{business_id}'. Allowed domains: {domains}.",
                          registered_domain |-> registered_domain,
                          business_id |-> business_id,
                          domains |-> domains]]
        ELSE IF allowed
        THEN IF BelowThreshold(category_confidence)
             THEN [status |-> "Flagged for Manual Review",
                   reason |-> IF Truthy(business_id)
                              THEN [text |-> "Content detected as '{detected_category}' (allowed for business '{business_id}'), but confidence is very low ({category_confidence}).",
                                    detected_category |-> detected_category,
                                    business_id |-> business_id,
                                    category_confidence |-> category_confidence]
                              ELSE [text |-> "Content matches domain '{registered_domain}', but confidence is very low ({category_confidence}).",
                                    registered_domain |-> registered_domain,
                                    category_confidence |-> category_confidence]]
             ELSE [status |-> "Approved",
                   reason |-> IF Truthy(business_id)
                              THEN [text |-> "Content matches allowed domain '{detected_category}' for business '{business_id}'.",
                                    detected_category |-> detected_category,
                                    business_id |-> business_id]
                              ELSE [text |-> "Content matches domain '{registered_domain}'.",
                                    registered_domain |-> registered_domain]]
        ELSE IF ~allowed
        THEN [status |-> "Rejected: Domain Mismatch",
              reason |-> IF Truthy(business_id)
                         THEN [text |-> "Content detected as '{detected_category}' but business '{business_id}' is only allowed to post in: {domains}.",
                               detected_category |-> detected_category,
                               business_id |-> business_id,
                               domains |-> domains]
                         ELSE [text |-> "Content detected as '{detected_category}' but business registered for '{registered_domain}'.",
                               detected_category |-> detected_category,
                               registered_domain |-> registered_domain]]
        ELSE [status |-> "Flagged for Manual Review",
              reason |-> [text |-> "Unable to determine content allowance."]]

\* mutant: a confident decision model overrides an approval by the rules
MainDict_DecisionModelVeto(detected_category, category_confidence, decision_confidence, registered_domain, business_id, profiles) ==
    LET d == Decide(detected_category, category_confidence, registered_domain,
                    business_id, profiles)
    IN  [status |-> IF d.status = "Approved" /\ decision_confidence > 90000
                    THEN "Flagged for Manual Review" ELSE d.status,
         reason |-> d.reason,
         confidence |-> Round4(category_confidence),
         confidence_score |-> Round4(category_confidence),
         predicted_category |-> detected_category,
         detected_category |-> detected_category,
         domain_match |-> domain_match(detected_category, registered_domain),
         is_allowed_in_business_domains |->
             is_allowed_in_business_domains(detected_category, registered_domain,
                                            business_id, profiles),
         business_allowed_domains |->
             business_allowed_domains(registered_domain, business_id, profiles),
         category_confidence |-> Round4(category_confidence),
         decision_confidence |-> Round4(decision_confidence)]

\* lines 203-215: the dictionary returned after the chain
MainDict(detected_category, category_confidence, decision_confidence, registered_domain, business_id, profiles) ==
    LET d == Decide(detected_category, category_confidence, registered_domain,
                    business_id, profiles)
    IN  [status |-> d.status,
         reason |-> d.reason,
         confidence |-> Round4(category_confidence),
         confidence_score |-> Round4(category_confidence),
         predicted_category |-> detected_category,
         detected_category |-> detected_category,
         domain_match |-> domain_match(detected_category, registered_domain),
         is_allowed_in_business_domains |->
             is_allowed_in_business_domains(detected_category, registered_domain,
                                            business_id, profiles),
         business_allowed_domains |->
             business_allowed_domains(registered_domain, business_id, profiles),
         category_confidence |-> Round4(category_confidence),
         decision_confidence |-> Round4(decision_confidence)]

\* ------------------------------------------------------------------------
\* State
\* ------------------------------------------------------------------------
VARIABLES
    models_state,         \* models/trained/*.pkl, *.json: "trained", "missing" or "corrupt"
    profiles_file,        \* data/business_profiles.json: "present", "missing" or "corrupt"
    user_text,            \* argument user_text
    registered_domain,    \* argument registered_domain
    business_id,          \* argument business_id (None when omitted)
    category_pred,        \* local category_pred, -1 while unassigned
    category_confidence,  \* local category_confidence, -1 while unassigned
    decision_pred,        \* local decision_pred, -1 while unassigned
    decision_confidence,  \* local decision_confidence, -1 while unassigned
    raised,               \* str(e) of the exception raised in the call, or NoException
    result,               \* the dictionary returned
    pc                    \* "call": about to call, "done": the call has returned

\* The fuser (inference/fusion.py, api/verify_content.py)
VARIABLES
    text_result,          \* local text_result of verify_mixed / argument text_prediction
    image_results,        \* local image_results of verify_mixed / argument image_predictions
    fusion_weights,       \* config["fusion_weights"] / argument weights
    prediction,           \* the dictionary the fuser returns
    fusion_op             \* the fuser operation that ran, "call" before it runs

\* The decision engines (policy/decision_engine.py and
\* content-verification-service/policy/decision_engine.py)
VARIABLES
    policy_file,          \* the policy file: "valid", "missing" or "corrupt"
    policies,             \* self.policies of the DecisionEngine instance
    service,              \* the service module: "not imported", "imported", "import failed"
    content_prediction,   \* argument content_prediction / prediction
    business_profile,     \* argument business_profile / business
    decision,             \* what make_decision returned
    service_decision,     \* what decide() returned
    update                \* the add_restricted_category call: its arguments and position

\* The profile store (database/business_profiles.py)
VARIABLES
    db_file,              \* the file at db_path
    db_profiles,          \* self.profiles of the BusinessProfileDB instance
    db_op,                \* the last call on the store: its arguments and what it returned
    db_calls              \* the number of calls made on the store

\* The HTTP front-end (main.py)
VARIABLES
    tmp_files,            \* the directory /tmp: which file each name refers to
    file_data,            \* the content of every file created, unlinked ones included
    requests              \* the requests: their form fields, position and response

analyzer_vars == <<models_state, profiles_file, user_text, registered_domain, business_id,
                   category_pred, category_confidence, decision_pred, decision_confidence,
                   raised, result, pc>>

fusion_vars == <<text_result, image_results, fusion_weights, prediction, fusion_op>>

engine_vars == <<policy_file, policies, service, content_prediction, business_profile,
                 decision, service_decision, update>>

db_vars == <<db_file, db_profiles, db_op, db_calls>>

http_vars == <<tmp_files, file_data, requests>>

vars == <<analyzer_vars, fusion_vars, engine_vars, db_vars, http_vars>>

\* a component that takes no part in the run under study
NotInUse == "<not in use>"

FusionNotInUse ==
    /\ text_result = NotInUse
    /\ image_results = NotInUse
    /\ fusion_weights = NotInUse
    /\ prediction = NotInUse
    /\ fusion_op = NotInUse

EngineNotInUse ==
    /\ policy_file = NotInUse
    /\ policies = NotInUse
    /\ service = NotInUse
    /\ content_prediction = NotInUse
    /\ business_profile = NotInUse
    /\ decision = NotInUse
    /\ service_decision = NotInUse
    /\ update = NotInUse

DBNotInUse ==
    /\ db_file = NotInUse
    /\ db_profiles = NotInUse
    /\ db_op = NotInUse
    /\ db_calls = NotInUse

HttpNotInUse ==
    /\ tmp_files = NotInUse
    /\ file_data = NotInUse
    /\ requests = NotInUse

AnalyzerNotInUse ==
    /\ models_state = NotInUse
    /\ profiles_file = NotInUse
    /\ user_text = NotInUse
    /\ registered_domain = NotInUse
    /\ business_id = NotInUse
    /\ category_pred = NotInUse
    /\ category_confidence = NotInUse
    /\ decision_pred = NotInUse
    /\ decision_confidence = NotInUse
    /\ raised = NotInUse
    /\ result = NotInUse
    /\ pc = NotInUse

NoResult == [status |-> "<no result>"]

\* outputs of the decision model: (decision_pred, max of predict_proba)
DecisionOutputs == {<<0, 60005>>, <<1, 99000>>}

\* TrainedModelAnalyzer._load_business_profiles
LoadProfiles(file) ==
    IF file = "present" THEN GeneratedProfiles ELSE EmptyProfiles

\* what the analyzer holds in self.business_profiles
business_profiles == LoadProfiles(profiles_file)

Init ==
    /\ models_state \in {"trained", "missing", "corrupt"}
    /\ profiles_file \in {"present", "missing", "corrupt"}
    /\ user_text \in Texts
    /\ registered_domain \in RegisteredDomains
    /\ business_id \in BusinessIds
    /\ category_pred = -1
    /\ category_confidence = -1
    /\ decision_pred = -1
    /\ decision_confidence = -1
    /\ raised = NoException
    /\ result = NoResult
    /\ pc = "call"
    /\ FusionNotInUse
    /\ EngineNotInUse
    /\ DBNotInUse
    /\ HttpNotInUse

\* The body of TrainedModelAnalyzer.analyze_content (lines 86-225): the
\* values of the locals when it returns, the exception it caught, and the
\* dictionary it returns.  fault names the collaborator that raises, if any;
\* pred, cconf and dec are what the two models return.
MethodBody(text, rd, bid, profiles, fault, pred, cconf, dec) ==
    LET Out(res, cp, cc, dp, dc, exc) ==
            [result |-> res, category_pred |-> cp, category_confidence |-> cc,
             decision_pred |-> dp, decision_confidence |-> dc, raised |-> exc]
        Caught(cp, cc, dp, dc) ==
            Out(MethodErrorDict(ExcMessage(fault)), cp, cc, dp, dc, ExcMessage(fault))
    IN  IF fault = "preprocess" THEN Caught(-1, -1, -1, -1)
        ELSE IF preprocess(text) = <<>> THEN Out(EmptyTextDict, -1, -1, -1, -1, NoException)
        ELSE IF fault \in {"vectorize", "category_model"} THEN Caught(-1, -1, -1, -1)
        ELSE IF fault = "decision_model" THEN Caught(pred, cconf, -1, -1)
        ELSE IF fault = "profile_lookup" /\ ProfileFound(bid, profiles)
        THEN Caught(pred, cconf, dec[1], dec[2])
        ELSE Out(MainDict(MappingGet(pred), cconf, dec[2], rd, bid, profiles),
                 pred, cconf, dec[1], dec[2], NoException)

Returns(out) ==
    /\ result' = out.result
    /\ category_pred' = out.category_pred
    /\ category_confidence' = out.category_confidence
    /\ decision_pred' = out.decision_pred
    /\ decision_confidence' = out.decision_confidence
    /\ raised' = out.raised
    /\ pc' = "done"
    /\ UNCHANGED <<models_state, profiles_file, user_text, registered_domain, business_id>>
    /\ UNCHANGED <<fusion_vars, engine_vars, db_vars, http_vars>>

\* analyzer.analyze_content(user_text, registered_domain, business_id) on an
\* analyzer that was constructed before (the tests that build their own
\* TrainedModelAnalyzer)
Method_analyze_content ==
    /\ pc = "call"
    /\ models_state = "trained"
    /\ profiles_file # "corrupt"
    /\ \E fault \in FaultPoints \cup {"none"}, pred \in ClassIds,
          cconf \in ConfValues, dec \in DecisionOutputs :
          Returns(MethodBody(user_text, registered_domain, business_id,
                             business_profiles, fault, pred, cconf, dec))

\* the module-level analyze_content (lines 228-254): constructs the analyzer,
\* then calls the method
analyze_content ==
    /\ pc = "call"
    /\ IF models_state = "missing"
       THEN Returns([result |-> NotTrainedDict(ModelNotFoundMessage),
                     category_pred |-> -1, category_confidence |-> -1,
                     decision_pred |-> -1, decision_confidence |-> -1,
                     raised |-> ModelNotFoundMessage])
       ELSE IF models_state = "corrupt"
       THEN Returns([result |-> FunctionErrorDict(CorruptModelMessage),
                     category_pred |-> -1, category_confidence |-> -1,
                     decision_pred |-> -1, decision_confidence |-> -1,
                     raised |-> CorruptModelMessage])
       ELSE IF profiles_file = "corrupt"
       THEN Returns([result |-> FunctionErrorDict(CorruptProfilesMessage),
                     category_pred |-> -1, category_confidence |-> -1,
                     decision_pred |-> -1, decision_confidence |-> -1,
                     raised |-> CorruptProfilesMessage])
       ELSE \E fault \in FaultPoints \cup {"none"}, pred \in ClassIds,
               cconf \in ConfValues, dec \in DecisionOutputs :
               Returns(MethodBody(user_text, registered_domain, business_id,
                                  business_profiles, fault, pred, cconf, dec))

Next == Method_analyze_content \/ analyze_content

Spec == Init /\ [][Next]_vars

\* ------------------------------------------------------------------------
\* State functions used by the properties
\* ------------------------------------------------------------------------
\* the call has returned
Done == pc = "done"

\* the call has returned and no exception was raised while it ran
ReturnedNormally == Done /\ raised = NoException

\* the category model was consulted, and no exception followed
CategoryDetected == ReturnedNormally /\ category_pred # -1

\* the local detected_category (line 112)
DetectedCategory == MappingGet(category_pred)

\* the stored profile of the caller's business, when there is one
HasStoredProfile == business_id \in DOMAIN business_profiles

StoredDomains == SeqRange(business_profiles[business_id].domains)

\* registered_domain is, ignoring case, one of the stored allowed domains
RegisteredDomainAmongStored ==
    \E d \in StoredDomains : LowerStr(d) = LowerStr(registered_domain)

\* ------------------------------------------------------------------------
\* C1: when the text is non-empty after preprocessing and the detected
\* category is weapons, drugs, adult_content or gambling, the status is
\* 'Rejected: Restricted Content', whatever the confidence, the registered
\* domain and the business id.
\* ------------------------------------------------------------------------
C1_RestrictedAlwaysRejected ==
    (CategoryDetected
        /\ preprocess(user_text) # <<>>
        /\ DetectedCategory \in {"weapons", "drugs", "adult_content", "gambling"})
    => result.status = "Rejected: Restricted Content"

\* gambling content below the threshold, posted by a marketplace under the
\* registered domain gambling itself
C1_Witness ==
    /\ CategoryDetected
    /\ DetectedCategory = "gambling"
    /\ category_confidence < 15000
    /\ registered_domain = "gambling"
    /\ business_id = "M001"
    /\ result.status = "Rejected: Restricted Content"

\* ------------------------------------------------------------------------
\* C2: for a business whose stored profile allows two distinct domains A and
\* B, detected category A with registered_domain B is 'Rejected: Domain
\* Mismatch'.
\* ------------------------------------------------------------------------
C2_CrossPostingRejected ==
    (CategoryDetected /\ HasStoredProfile)
    => \A A \in StoredDomains, B \in StoredDomains :
          (A # B /\ DetectedCategory = A /\ registered_domain = B)
          => result.status = "Rejected: Domain Mismatch"

C2_Witness ==
    /\ CategoryDetected
    /\ business_id = "M001"
    /\ DetectedCategory = "electronics"
    /\ registered_domain = "beauty"
    /\ category_confidence = 99000
    /\ result.status = "Rejected: Domain Mismatch"

\* ------------------------------------------------------------------------
\* C3 as stated: for a business whose stored allowed domains are exactly
\* {D}, every call with a registered_domain other than D returns
\* 'Rejected: Invalid Registered Domain'.
\* ------------------------------------------------------------------------
C3_Original ==
    (ReturnedNormally /\ HasStoredProfile)
    => \A D \in StoredDomains :
          (StoredDomains = {D} /\ registered_domain # D)
          => result.status = "Rejected: Invalid Registered Domain"

\* C3 as amended: for a business whose stored allowed domains are exactly
\* {D}, a call whose text is non-empty after preprocessing, whose detected
\* category is neither 'unknown' nor restricted, and whose registered_domain
\* differs from D ignoring letter case, returns 'Rejected: Invalid
\* Registered Domain'.
C3_SingleDomainInvalid ==
    (CategoryDetected /\ HasStoredProfile)
    => \A D \in StoredDomains :
          (/\ StoredDomains = {D}
           /\ LowerStr(registered_domain) # LowerStr(D)
           /\ DetectedCategory # "unknown"
           /\ DetectedCategory \notin {"weapons", "drugs", "adult_content", "gambling"})
          => result.status = "Rejected: Invalid Registered Domain"

\* the B057 scenario: education content registered under beauty
C3_Witness ==
    /\ CategoryDetected
    /\ business_id = "B057"
    /\ registered_domain = "beauty"
    /\ DetectedCategory = "education"
    /\ result.status = "Rejected: Invalid Registered Domain"

\* ------------------------------------------------------------------------
\* C4: for a business_id with a stored profile, the status is never
\* 'Approved' when registered_domain is not, ignoring case, one of the
\* business's allowed domains.
\* ------------------------------------------------------------------------
C4_NeverApprovedOutsideAllowed ==
    (Done /\ HasStoredProfile /\ ~RegisteredDomainAmongStored)
    => result.status # "Approved"

\* M001 posting education content, confidently, under education
C4_Witness ==
    /\ CategoryDetected
    /\ business_id = "M001"
    /\ registered_domain = "education"
    /\ DetectedCategory = "education"
    /\ category_confidence = 99000
    /\ result.status = "Rejected: Invalid Registered Domain"

\* ------------------------------------------------------------------------
\* C5: whenever the status is 'Approved', the detected category is not
\* 'unknown', is not restricted, equals registered_domain ignoring case, the
\* registered domain is valid for the business when a profile was found, and
\* the category confidence is at least 0.15; and a result flagged for low
\* confidence has a category and a domain that both validated.
\* ------------------------------------------------------------------------
CategoryAndDomainValidated ==
    /\ category_pred # -1
    /\ DetectedCategory # "unknown"
    /\ DetectedCategory \notin {"weapons", "drugs", "adult_content", "gambling"}
    /\ LowerStr(DetectedCategory) = LowerStr(registered_domain)
    /\ (HasStoredProfile => RegisteredDomainAmongStored)

\* the reason of the result cites the confidence value
FlaggedForLowConfidence ==
    /\ result.status = "Flagged for Manual Review"
    /\ "category_confidence" \in DOMAIN result.reason

C5_ApprovedImpliesAllRules ==
    Done =>
       /\ (result.status = "Approved"
              => CategoryAndDomainValidated /\ category_confidence >= 15000)
       /\ (FlaggedForLowConfidence
              => CategoryAndDomainValidated /\ category_confidence < 15000)

\* B057 approved at exactly the threshold under a differently cased domain
C5_Witness ==
    /\ Done
    /\ result.status = "Approved"
    /\ business_id = "B057"
    /\ registered_domain = "Education"
    /\ category_confidence = 15000

\* ------------------------------------------------------------------------
\* C6: the status is that of the first matching rule of the chain (1) empty
\* text -> Flagged, (2) unknown -> Flagged, (3) restricted -> Rejected:
\* Restricted Content, (4) invalid registered domain -> Rejected: Invalid
\* Registered Domain, (5) category differs from registered domain ->
\* Rejected: Domain Mismatch, (6) confidence below threshold -> Flagged,
\* else Approved.
\* ------------------------------------------------------------------------
FirstMatchingRule ==
    IF preprocess(user_text) = <<>> THEN "Flagged for Manual Review"
    ELSE IF DetectedCategory = "unknown" THEN "Flagged for Manual Review"
    ELSE IF DetectedCategory \in {"weapons", "drugs", "adult_content", "gambling"}
         THEN "Rejected: Restricted Content"
    ELSE IF HasStoredProfile /\ ~RegisteredDomainAmongStored
         THEN "Rejected: Invalid Registered Domain"
    ELSE IF LowerStr(DetectedCategory) # LowerStr(registered_domain)
         THEN "Rejected: Domain Mismatch"
    ELSE IF category_confidence < 15000 THEN "Flagged for Manual Review"
    ELSE "Approved"

C6_FirstMatchingRuleWins ==
    ReturnedNormally => result.status = FirstMatchingRule

\* a mismatch below the threshold is rejected as a mismatch, not flagged
C6_Witness ==
    /\ CategoryDetected
    /\ business_id = "M001"
    /\ registered_domain = "beauty"
    /\ DetectedCategory = "electronics"
    /\ category_confidence = 0
    /\ result.status = "Rejected: Domain Mismatch"

\* ------------------------------------------------------------------------
\* C7 as stated: when the detected category matches the registered domain
\* and the registered domain is valid, the status is 'Approved' at a
\* confidence equal to or above the threshold and 'Flagged for Manual
\* Review' strictly below it.
\* ------------------------------------------------------------------------
C7_Original ==
    (/\ CategoryDetected
     /\ LowerStr(DetectedCategory) = LowerStr(registered_domain)
     /\ (HasStoredProfile => RegisteredDomainAmongStored))
    => /\ (category_confidence >= 15000 => result.status = "Approved")
       /\ (category_confidence < 15000 => result.status = "Flagged for Manual Review")

\* C7 as amended: when the detected category is neither 'unknown' nor
\* restricted, matches the registered domain, and the registered domain is
\* valid, the status is 'Approved' at a confidence equal to or above the
\* threshold and 'Flagged for Manual Review' strictly below it.
C7_ThresholdInclusive ==
    (CategoryDetected /\ CategoryAndDomainValidated)
    => /\ (category_confidence >= 15000 => result.status = "Approved")
       /\ (category_confidence < 15000 => result.status = "Flagged for Manual Review")

\* approval at exactly the threshold
C7_Witness ==
    /\ CategoryDetected
    /\ business_id = None
    /\ DetectedCategory = "beauty"
    /\ registered_domain = "beauty"
    /\ category_confidence = 15000
    /\ result.status = "Approved"

\* ------------------------------------------------------------------------
\* C8 as stated: an exception raised while analyze_content evaluates
\* (preprocessing, vectorizing, prediction, profile lookup, or construction
\* of the analyzer, missing model files included) yields a result of status
\* 'Error' whose reason carries the exception message, never 'Approved'.
\* ------------------------------------------------------------------------
ReasonCarriesMessage ==
    "e" \in DOMAIN result.reason /\ result.reason.e = raised

C8_Original ==
    (Done /\ raised # NoException)
    => /\ result.status = "Error"
       /\ ReasonCarriesMessage

\* C8 as amended: such an exception yields a result of status 'Error', never
\* 'Approved', whose 'error' field carries the exception message; the reason
\* carries it too, except for a missing model file (FileNotFoundError while
\* the module-level analyze_content constructs the analyzer), where the
\* reason is the fixed text 'Models not trained yet. Please run: python
\* train_models.py'.
C8_ExceptionsBecomeError ==
    (Done /\ raised # NoException)
    => /\ result.status = "Error"
       /\ "error" \in DOMAIN result
       /\ result.error = raised
       /\ IF models_state = "missing"
          THEN result.reason.text = "Models not trained yet. Please run: python train_models.py"
          ELSE ReasonCarriesMessage

\* the decision model raises after the category was detected
C8_Witness ==
    /\ Done
    /\ raised = "decision model has no predict_proba"
    /\ category_pred # -1
    /\ result.status = "Error"
    /\ result.reason.e = raised

\* ------------------------------------------------------------------------
\* C9: the status returned is one of the six literal strings.
\* ------------------------------------------------------------------------
C9_StatusIsOneOfSix ==
    Done => result.status \in {"Approved",
                               "Rejected: Restricted Content",
                               "Rejected: Invalid Registered Domain",
                               "Rejected: Domain Mismatch",
                               "Flagged for Manual Review",
                               "Error"}

\* a call on a text that preprocessing empties has returned
C9_Witness ==
    /\ Done
    /\ user_text = <<"the", "42">>
    /\ result.status = "Flagged for Manual Review"

\* ------------------------------------------------------------------------
\* C10: every result, on every branch, contains the detected category, the
\* confidence (under 'confidence' as well as 'confidence_score'), the
\* business's allowed domains, the domain-match flag and the
\* registered-domain-valid flag.
\* ------------------------------------------------------------------------
C10_ObservabilityFields ==
    Done => {"detected_category", "confidence", "confidence_score",
             "business_allowed_domains", "domain_match",
             "is_registered_domain_valid"} \subseteq DOMAIN result

\* ------------------------------------------------------------------------
\* C11: when a profile is stored for business_id, the registered domain is
\* treated as valid exactly when it equals, ignoring letter case, one of the
\* profile's allowed domains, and the allowed domains reported and used are
\* the profile's full list.
\* ------------------------------------------------------------------------
C11_ProfileDomainValidity ==
    (CategoryDetected /\ HasStoredProfile)
    => /\ result.business_allowed_domains = business_profiles[business_id].domains
       /\ (result.is_allowed_in_business_domains
              <=> (result.domain_match /\ RegisteredDomainAmongStored))
       /\ ((DetectedCategory # "unknown" /\ ~IsRestricted(DetectedCategory))
              => (result.status = "Rejected: Invalid Registered Domain"
                     <=> ~RegisteredDomainAmongStored))

\* the marketplace M001 posting gambling-free content under a domain that is
\* not among its two stored domains
C11_Witness ==
    /\ CategoryDetected
    /\ business_id = "M001"
    /\ registered_domain = "education"
    /\ DetectedCategory = "education"
    /\ result.business_allowed_domains = <<"electronics", "beauty">>
    /\ result.status = "Rejected: Invalid Registered Domain"

\* ------------------------------------------------------------------------
\* C12: when no profile is available for the call (business_id omitted or
\* empty, or no profile stored under it), the registered domain is treated
\* as valid, the allowed domains reported are [registered_domain], the
\* status is never 'Rejected: Invalid Registered Domain', and the status is
\* that of the same call made with no business_id.
\* ------------------------------------------------------------------------
NoProfileAvailable ==
    \/ ~Truthy(business_id)
    \/ profiles_file # "present"
    \/ business_id \notin DOMAIN GeneratedProfiles

C12_NoProfileTriviallyValid ==
    (Done /\ NoProfileAvailable)
    => /\ result.status # "Rejected: Invalid Registered Domain"
       /\ CategoryDetected
            => /\ result.business_allowed_domains = <<registered_domain>>
               /\ result.is_allowed_in_business_domains = result.domain_match
               /\ result.status =
                    Decide(DetectedCategory, category_confidence,
                           registered_domain, None, business_profiles).status

\* an unregistered business id, and a registered one while the profile file
\* is missing
C12_Witness ==
    /\ CategoryDetected
    /\ \/ business_id = "X999" /\ profiles_file = "present"
       \/ business_id = "B057" /\ profiles_file = "missing"
    /\ registered_domain = "beauty"
    /\ DetectedCategory = "beauty"
    /\ result.business_allowed_domains = <<"beauty">>
    /\ result.status = "Approved"

\* ------------------------------------------------------------------------
\* C29: the status and the reason analyze_content returns are a function of
\* the emptiness of the text, the detected category, the category
\* confidence, registered_domain and the business (id and stored profile)
\* alone: whatever the decision model predicts, and with whatever
\* confidence, they are the ones the business-domain rules give.
\* ------------------------------------------------------------------------
C29_StatusIgnoresDecisionModel ==
    ReturnedNormally
    => IF category_pred = -1
       THEN /\ preprocess(user_text) = <<>>
            /\ result.status = EmptyTextDict.status
            /\ result.reason = EmptyTextDict.reason
       ELSE LET d == Decide(DetectedCategory, category_confidence, registered_domain,
                            business_id, business_profiles)
            IN  result.status = d.status /\ result.reason = d.reason

\* approved by the rules although the decision model predicts "blocked"
C29_Witness ==
    /\ CategoryDetected
    /\ decision_pred = 0
    /\ business_id = "M001"
    /\ registered_domain = "electronics"
    /\ DetectedCategory = "electronics"
    /\ result.status = "Approved"

\* ========================================================================
\* Prediction fusion: inference/fusion.py and the fuser step of
\* ContentVerificationAPI.verify_mixed (api/verify_content.py)
\*
\* A prediction is a record with category, confidence and is_restricted; a
\* confidence computed by the fuser is the exact fraction [num, den] in the
\* same unit as the input confidences (1/100000).  A dictionary that keeps
\* insertion order (category_scores) is a sequence of [cat, num] entries whose
\* scores share the denominator of the fused confidence.
\* ========================================================================
MaxImages == 2

\* TextClassifier.restricted_categories
TextRestricted == {"weapons", "drugs", "adult_content", "gambling"}

\* the list ImageClassifier.predict tests the category against
ImageRestricted == {"weapons", "drugs", "adult_content", "gambling",
                    "counterfeit", "harmful_chemicals", "surveillance"}

\* the confidence n (in units of 1/100000) as a fraction
Frac(n) == [num |-> n, den |-> 1]

\* equality of two fractions
FracEq(a, b) == a.num * b.den = b.num * a.den

\* what TextClassifier.predict returns for a category and a confidence
TextPred(cat, conf) ==
    [category |-> cat, confidence |-> Frac(conf), is_restricted |-> cat \in TextRestricted]

\* what ImageClassifier.predict returns for a category and a confidence
ImagePred(cat, conf) ==
    [category |-> cat, confidence |-> Frac(conf), is_restricted |-> cat \in ImageRestricted]

\* categories and confidences of the modelled predictions
FusionTextCategories == {"food", "electronics", "weapons"}

FusionImageCategories == {"food", "vehicle", "weapons"}

FusionConfValues == {50000, 90000}

TextPredictions == {TextPred(c, v) : c \in FusionTextCategories, v \in FusionConfValues}

\* a text prediction of a caller of fuse_predictions / weighted_fusion that
\* uses a sub-category of the alias table as its raw category; its flag is
\* set by the same rule, from the raw category
CallerTextCategories == {"medicine"}

CallerPredictions == {TextPred(c, v) : c \in CallerTextCategories, v \in FusionConfValues}

ImagePredictions == {ImagePred(c, v) : c \in FusionImageCategories, v \in FusionConfValues}

ImageLists == UNION {[1..n -> ImagePredictions] : n \in 0..MaxImages}

\* The weights argument, by its Python type: None (the default of the keyword
\* argument), a string, a dictionary with the keys text and image (tenths),
\* or a list of numbers
NoWeights == [kind |-> "None"]

BadWeights == [kind |-> "str"]

DictWeight(t, i) == [kind |-> "dict", text |-> t, image |-> i]

ListWeight(ws) == [kind |-> "list", items |-> ws]

\* the default 0.6/0.4 of the configuration, both zero, text only, image only
DictWeights == {DictWeight(6, 4), DictWeight(0, 0), DictWeight(1, 0), DictWeight(0, 1)}

ListWeights == {ListWeight(<<1, 1>>), ListWeight(<<3, 1>>), ListWeight(<<0, 0>>), ListWeight(<<1>>)}

WeightChoices == {NoWeights, BadWeights} \cup DictWeights \cup ListWeights

\* text_result = None in verify_mixed: there is no text prediction
NoTextResult == [absent |-> TRUE]

\* FusionClassifier._create_category_mapping: alias -> main category
FusionAlias(c) ==
    CASE c \in {"food", "restaurant", "meal"} -> "food"
      [] c \in {"tech", "electronics", "computer"} -> "tech"
      [] c \in {"weapons", "firearms", "guns"} -> "weapons"
      [] c \in {"drugs", "medicine", "pharmaceutical"} -> "drugs"
      [] c \in {"adult_content", "explicit"} -> "adult_content"
      [] c \in {"fashion", "clothing", "apparel"} -> "fashion"
      [] c \in {"automotive", "vehicle", "car"} -> "automotive"
      [] c \in {"nature", "animal", "plant"} -> "nature"
      [] c \in {"document", "paper", "text"} -> "document"
      [] c \in {"person", "face", "portrait"} -> "person"
      [] OTHER -> c

\* lines 75-84: the weights after normalisation, as numerators over total
NormalizedWeights(weights) ==
    LET w == IF weights.kind = "None" THEN [text |-> 6, image |-> 4] ELSE weights
        total_weight == w.text + w.image
    IN  IF total_weight > 0
        THEN [text |-> w.text, image |-> w.image, total |-> total_weight]
        ELSE [text |-> 1, image |-> 1, total |-> 2]

\* mutant: a later contribution replaces the score instead of adding to it
AddScore_Overwrite(scores, cat, num) ==
    IF \E i \in DOMAIN scores : scores[i].cat = cat
    THEN [i \in DOMAIN scores |->
            IF scores[i].cat = cat THEN [cat |-> cat, num |-> num] ELSE scores[i]]
    ELSE Append(scores, [cat |-> cat, num |-> num])

\* category_scores[cat] = category_scores.get(cat, 0) + num
AddScore(scores, cat, num) ==
    IF \E i \in DOMAIN scores : scores[i].cat = cat
    THEN [i \in DOMAIN scores |->
            IF scores[i].cat = cat THEN [cat |-> cat, num |-> scores[i].num + num]
                                   ELSE scores[i]]
    ELSE Append(scores, [cat |-> cat, num |-> num])

\* mutant: among entries of equal score the last one inserted wins
MaxEntry_Last(scores) ==
    LET best == CHOOSE i \in DOMAIN scores :
                    /\ \A j \in DOMAIN scores : scores[j].num <= scores[i].num
                    /\ \A j \in DOMAIN scores : j > i => scores[j].num < scores[i].num
    IN  scores[best]

\* max(category_scores.items(), key=lambda x: x[1]): the first entry, in
\* insertion order, whose score no entry exceeds
MaxEntry(scores) ==
    LET best == CHOOSE i \in DOMAIN scores :
                    /\ \A j \in DOMAIN scores : scores[j].num <= scores[i].num
                    /\ \A j \in DOMAIN scores : j < i => scores[j].num < scores[i].num
    IN  scores[best]

\* sorted(category_scores.items(), key=lambda x: x[1], reverse=True): stable
RECURSIVE SortedDesc(_)
SortedDesc(scores) ==
    IF scores = <<>> THEN <<>>
    ELSE LET top == MaxEntry(scores)
             rest == SelectSeq(scores, LAMBDA e : e.cat # top.cat)
         IN  <<top>> \o SortedDesc(rest)

FirstFive(sq) == SubSeq(sq, 1, IF Len(sq) < 5 THEN Len(sq) ELSE 5)

\* lines 107-111: the images added to category_scores, in list order
RECURSIVE AddImages(_, _, _)
AddImages(scores, images, image_weight) ==
    IF images = <<>> THEN scores
    ELSE AddImages(AddScore(scores, FusionAlias(Head(images).category),
                            Head(images).confidence.num * image_weight),
                   Tail(images), image_weight)

\* lines 121-127
AnyRestricted(text_prediction, image_predictions) ==
    \/ text_prediction.is_restricted
    \/ \E i \in DOMAIN image_predictions : image_predictions[i].is_restricted

\* mutant: the error result is flagged restricted
FuseErrorDict_Restricted(msg) ==
    [category |-> "unknown", confidence |-> Frac(0),
     is_restricted |-> TRUE, error |-> msg]

\* lines 160-167: except Exception in fuse_predictions
FuseErrorDict(msg) ==
    [category |-> "unknown", confidence |-> Frac(0),
     is_restricted |-> FALSE, error |-> msg]

\* str(e) of what fuse_predictions raises on these arguments, or NoException
FuseException(text_prediction, weights) ==
    IF weights.kind = "str" THEN "'str' object has no attribute 'get'"
    ELSE IF weights.kind = "list" THEN "'list' object has no attribute 'get'"
    ELSE IF text_prediction = NoTextResult THEN "'NoneType' object has no attribute 'get'"
    ELSE NoException

\* FusionClassifier.fuse_predictions
fuse_predictions(text_prediction, image_predictions, weights) ==
    IF FuseException(text_prediction, weights) # NoException
    THEN FuseErrorDict(FuseException(text_prediction, weights))
    ELSE LET w == NormalizedWeights(weights)
             n == IF Len(image_predictions) = 0 THEN 1 ELSE Len(image_predictions)
             den == w.total * n
             text_scores == <<[cat |-> FusionAlias(text_prediction.category),
                               num |-> text_prediction.confidence.num * w.text * n]>>
             category_scores == AddImages(text_scores, image_predictions, w.image)
             best == MaxEntry(category_scores)
         IN  [category |-> best.cat,
              confidence |-> [num |-> best.num, den |-> den],
              is_restricted |-> AnyRestricted(text_prediction, image_predictions),
              top_categories |-> FirstFive(SortedDesc(category_scores)),
              fusion_weights |-> [text |-> [num |-> w.text, den |-> w.total],
                                  image |-> [num |-> w.image, den |-> w.total]],
              source_predictions |->
                  [text |-> [category |-> text_prediction.category,
                             confidence |-> text_prediction.confidence],
                   images |-> [i \in DOMAIN image_predictions |->
                                  [category |-> image_predictions[i].category,
                                   confidence |-> image_predictions[i].confidence]]]]

\* lines 222-224: except Exception in weighted_fusion
WeightedErrorDict(msg) ==
    [category |-> "unknown", confidence |-> Frac(0), error |-> msg]

RECURSIVE SumSeq(_)
SumSeq(sq) == IF sq = <<>> THEN 0 ELSE Head(sq) + SumSeq(Tail(sq))

\* lines 201-207: for pred, weight in zip(predictions, weights)
RECURSIVE AddWeighted(_, _, _)
AddWeighted(scores, predictions, weights) ==
    IF predictions = <<>> \/ weights = <<>> THEN scores
    ELSE AddWeighted(AddScore(scores, Head(predictions).category,
                              Head(predictions).confidence.num * Head(weights)),
                     Tail(predictions), Tail(weights))

\* FusionClassifier.weighted_fusion
weighted_fusion(predictions, weights) ==
    IF predictions = <<>>
    THEN [category |-> "unknown", confidence |-> Frac(0)]
    ELSE IF weights.kind \in {"str", "dict"}
    THEN WeightedErrorDict("unsupported operand type(s) for +: 'int' and 'str'")
    ELSE LET equal == [i \in DOMAIN predictions |-> 1]
             given == IF weights.kind = "None" THEN equal ELSE weights.items
             ws == IF SumSeq(given) > 0 THEN given ELSE equal
             category_scores == AddWeighted(<<>>, predictions, ws)
             best == MaxEntry(category_scores)
         IN  [category |-> best.cat,
              confidence |-> [num |-> best.num, den |-> SumSeq(ws)],
              is_restricted |-> \E i \in DOMAIN predictions : predictions[i].is_restricted,
              top_categories |-> FirstFive(SortedDesc(category_scores))]

\* max(image_results, key=lambda x: x.get("confidence", 0)): the index of the
\* first image no image exceeds in confidence
MaxConfidenceImage(images) ==
    CHOOSE i \in DOMAIN images :
        /\ \A j \in DOMAIN images : images[j].confidence.num <= images[i].confidence.num
        /\ \A j \in DOMAIN images : j < i => images[j].confidence.num < images[i].confidence.num

\* prediction["source"] = "text_only" (verify_mixed line 216)
TaggedTextOnly(p) == p @@ [source |-> "text_only"]

\* lines 220-221; the list stored under all_image_predictions is image_results
\* itself, which holds this very dictionary
TaggedImageOnly(p) ==
    p @@ [source |-> "image_only", all_image_predictions |-> "<image_results>"]

\* lines 222-227
EmptyPrediction == [category |-> "unknown", confidence |-> Frac(0), is_restricted |-> FALSE]

\* ------------------------------------------------------------------------
\* The fuser as a state machine: the classifiers' outputs and the weights
\* are drawn, then one fuser operation runs on them
\* ------------------------------------------------------------------------
NoPrediction == [category |-> "<no prediction>"]

FusionInit ==
    /\ text_result \in TextPredictions \cup CallerPredictions \cup {NoTextResult}
    /\ image_results \in ImageLists
    /\ fusion_weights \in WeightChoices
    /\ prediction = NoPrediction
    /\ fusion_op = "call"
    /\ AnalyzerNotInUse
    /\ EngineNotInUse
    /\ DBNotInUse
    /\ HttpNotInUse

\* verify_mixed, lines 203-227: the fuser step.  On the text-only and the
\* image-only path the dictionary returned IS the classifier's dictionary,
\* so the tag is written into text_result / image_results.
verify_mixed ==
    /\ fusion_op = "call"
    /\ text_result \notin CallerPredictions
    /\ fusion_op' = "verify_mixed"
    /\ UNCHANGED <<fusion_weights, analyzer_vars, engine_vars, db_vars, http_vars>>
    /\ IF text_result # NoTextResult /\ image_results # <<>>
       THEN /\ prediction' =
                  [source_predictions |-> [text |-> text_result, images |-> image_results]]
                  @@ fuse_predictions(text_result, image_results, fusion_weights)
            /\ UNCHANGED <<text_result, image_results>>
       ELSE IF text_result # NoTextResult
       THEN /\ text_result' = TaggedTextOnly(text_result)
            /\ prediction' = text_result'
            /\ UNCHANGED image_results
       ELSE IF image_results # <<>>
       THEN LET k == MaxConfidenceImage(image_results)
            IN  /\ image_results' =
                      [image_results EXCEPT ![k] = TaggedImageOnly(image_results[k])]
                /\ prediction' = image_results'[k]
                /\ UNCHANGED text_result
       ELSE /\ prediction' = EmptyPrediction
            /\ UNCHANGED <<text_result, image_results>>

\* a direct call fusion_classifier.fuse_predictions(text_result,
\* image_results, weights)
Call_fuse_predictions ==
    /\ fusion_op = "call"
    /\ fusion_op' = "fuse_predictions"
    /\ prediction' = fuse_predictions(text_result, image_results, fusion_weights)
    /\ UNCHANGED <<text_result, image_results, fusion_weights, analyzer_vars, engine_vars, db_vars, http_vars>>

\* the list of all predictions at hand, text first
AllPredictions ==
    (IF text_result = NoTextResult THEN <<>> ELSE <<text_result>>) \o image_results

\* a direct call fusion_classifier.weighted_fusion(predictions, weights)
Call_weighted_fusion ==
    /\ fusion_op = "call"
    /\ fusion_op' = "weighted_fusion"
    /\ prediction' = weighted_fusion(AllPredictions, fusion_weights)
    /\ UNCHANGED <<text_result, image_results, fusion_weights, analyzer_vars, engine_vars, db_vars, http_vars>>

FusionNext == verify_mixed \/ Call_fuse_predictions \/ Call_weighted_fusion

SpecFusion == FusionInit /\ [][FusionNext]_vars

\* the fuser has returned
Fused == fusion_op # "call"

\* some input prediction is flagged restricted
SomeInputRestricted ==
    \/ text_result # NoTextResult /\ text_result.is_restricted
    \/ \E i \in DOMAIN image_results : image_results[i].is_restricted

\* ------------------------------------------------------------------------
\* C13: if the text prediction or any image prediction has is_restricted =
\* true, the prediction the fuser produces has is_restricted = true, for
\* every choice of weights and on every fuser path (fuse_predictions,
\* weighted_fusion, text-only and image-only selection in verify_mixed).
\* ------------------------------------------------------------------------
C13_AnyRestrictedInputRestricts ==
    (Fused /\ SomeInputRestricted)
    => ("is_restricted" \in DOMAIN prediction /\ prediction.is_restricted)

\* ------------------------------------------------------------------------
\* C14: fusing a single text prediction p with no image predictions returns
\* p unchanged in category, confidence and is_restricted, both on the
\* text-only path of verify_mixed and through fuse_predictions(p, []).
\* ------------------------------------------------------------------------
SingleTextFused ==
    /\ Fused
    /\ text_result # NoTextResult
    /\ image_results = <<>>
    /\ \/ fusion_op = "verify_mixed"
       \/ fusion_op = "fuse_predictions" /\ fusion_weights = NoWeights

C14_SingleTextUnchanged ==
    SingleTextFused
    => /\ prediction.category = text_result.category
       /\ FracEq(prediction.confidence, text_result.confidence)
       /\ prediction.is_restricted = text_result.is_restricted

\* ------------------------------------------------------------------------
\* C15 as stated: an exception raised inside fuse_predictions does not
\* propagate, and the result is {category: 'error', confidence: 0.0,
\* is_restricted: false, error: <message>}.
\* ------------------------------------------------------------------------
\* the call fuse_predictions(...) raised: the weights are no dictionary, or
\* there is no text prediction
RaisedInFuse ==
    /\ fusion_op = "fuse_predictions"
    /\ \/ fusion_weights.kind \in {"str", "list"}
       \/ text_result = NoTextResult

RaisedInWeighted ==
    /\ fusion_op = "weighted_fusion"
    /\ AllPredictions # <<>>
    /\ fusion_weights.kind \in {"str", "dict"}

FuseMessages == {"'str' object has no attribute 'get'",
                 "'list' object has no attribute 'get'",
                 "'NoneType' object has no attribute 'get'"}

C15_Original ==
    RaisedInFuse
    => /\ DOMAIN prediction = {"category", "confidence", "is_restricted", "error"}
       /\ prediction.category = "error"
       /\ prediction.confidence = Frac(0)
       /\ prediction.is_restricted = FALSE
       /\ prediction.error \in FuseMessages

\* C15 as amended: an exception raised inside fuse_predictions does not
\* propagate, and the result is {category: 'unknown', confidence: 0.0,
\* is_restricted: false, error: <message>}; weighted_fusion returns the same
\* without the key is_restricted.
C15_FuseErrorResult ==
    /\ RaisedInFuse
         => /\ DOMAIN prediction = {"category", "confidence", "is_restricted", "error"}
            /\ prediction.category = "unknown"
            /\ prediction.confidence = Frac(0)
            /\ prediction.is_restricted = FALSE
            /\ prediction.error \in FuseMessages
    /\ RaisedInWeighted
         => /\ DOMAIN prediction = {"category", "confidence", "error"}
            /\ prediction.category = "unknown"
            /\ prediction.confidence = Frac(0)

\* weights passed as a string, with a restricted text prediction at hand
C15_Witness ==
    /\ RaisedInFuse
    /\ fusion_weights = BadWeights
    /\ text_result # NoTextResult
    /\ text_result.category = "weapons"
    /\ prediction.category = "unknown"
    /\ prediction.error = "'str' object has no attribute 'get'"

\* ========================================================================
\* The decision engines: DecisionEngine (policy/decision_engine.py) and
\* decide() of content-verification-service/policy/decision_engine.py
\* ========================================================================
\* a < b for fractions with positive denominators
FracLess(a, b) == a.num * b.den < b.num * a.den

\* d.get(k, default)
Get(d, k, default) == IF k \in DOMAIN d THEN d[k] ELSE default

\* default_policies of _load_policies (lines 47-76); business_domains and
\* rules are read by no decision and are left out
DefaultPolicies ==
    [restricted_categories |->
        <<"weapons", "explosives", "drugs", "prescription_medicine",
          "alcohol", "tobacco", "counterfeit", "human_organs",
          "wildlife", "harmful_chemicals", "surveillance",
          "hacking_tools", "gambling", "adult_content",
          "hate_speech", "pyramid_schemes", "illegal_services">>,
     high_risk_categories |-> <<"weapons", "drugs", "adult_content", "counterfeit">>,
     medium_risk_categories |->
        <<"prescription_medicine", "alcohol", "tobacco", "surveillance", "gambling">>]

\* the content of a valid policy/restricted_categories.json: the restricted
\* list of the deployment and its risk classes
FilePolicies ==
    [restricted_categories |-> <<"weapons", "drugs", "adult_content", "gambling">>,
     high_risk_categories |-> <<"weapons", "drugs">>,
     medium_risk_categories |-> <<"gambling">>]

\* the policy file on disk
ValidFile(content) == [state |-> "valid", content |-> content]

MissingFile == [state |-> "missing"]

CorruptFile == [state |-> "corrupt"]

\* default_policies.update(policies): the keys of the file win
DictUpdate(base, over) ==
    [k \in DOMAIN base \cup DOMAIN over |-> IF k \in DOMAIN over THEN over[k] ELSE base[k]]

\* DecisionEngine._load_policies (lines 45-88): a missing file is skipped, an
\* unreadable one is logged, and both leave the defaults
load_policies(file) ==
    IF file.state = "valid"
    THEN DictUpdate(DefaultPolicies, file.content)
    ELSE DefaultPolicies

\* DecisionEngine._get_severity_level
get_severity_level(pol, category) ==
    IF category \in SeqRange(Get(pol, "high_risk_categories", <<>>)) THEN "critical"
    ELSE IF category \in SeqRange(Get(pol, "medium_risk_categories", <<>>)) THEN "high"
    ELSE IF category \in SeqRange(Get(pol, "restricted_categories", <<>>)) THEN "medium"
    ELSE "low"

\* DecisionEngine._get_warning_message, for the categories of the model
get_warning_message(category) ==
    CASE category = "weapons" ->
           "This content is related to Weapons and Firearms, which violates our marketplace safety policy."
      [] category = "harmful_chemicals" ->
           "Harmful chemicals require special licenses and safety certifications."
      [] OTHER -> "This content violates our platform policies."
\* business_profile = None
NoneProfile == [absent |-> TRUE]

\* f'{confidence:.2f}': the confidence in hundredths, rounded to nearest
Format2f(c) == (2 * c.num + 1000 * c.den) \div (2000 * c.den)

\* the thresholds 0.3 and 0.6 of make_decision
LowConfidence == Frac(30000)

BorderlineConfidence == Frac(60000)

\* lines 116-124
PendingDecision ==
    [is_allowed |-> FALSE, decision |-> "pending", reason |-> [text |-> ""],
     severity |-> "low", requires_review |-> FALSE, warning_message |-> "",
     suggested_action |-> "none"]

\* lines 194-204: except Exception in make_decision
DecisionErrorDict(msg) ==
    [is_allowed |-> FALSE, decision |-> "error",
     reason |-> [text |-> "Decision error: {}", error |-> msg],
     severity |-> "critical", requires_review |-> TRUE,
     warning_message |-> "System error occurred during verification.",
     suggested_action |-> "review"]

\* lines 126-134: Check 1
BlockedDecision(pol, predicted_category) ==
    [PendingDecision EXCEPT
        !.is_allowed = FALSE,
        !.decision = "blocked",
        !.reason = [text |-> "Content falls under restricted category: {}",
                    category |-> predicted_category],
        !.severity = get_severity_level(pol, predicted_category),
        !.warning_message = get_warning_message(predicted_category),
        !.suggested_action = "block"]

\* lines 136-142: Check 2
AfterLowConfidence(d, confidence) ==
    IF FracLess(confidence, LowConfidence)
    THEN [d EXCEPT
            !.requires_review = TRUE,
            !.reason = [text |-> "Low prediction confidence: {:.2f}",
                        confidence |-> Format2f(confidence)],
            !.severity = "medium",
            !.warning_message = "Content classification uncertain. Requires manual review.",
            !.suggested_action = "review"]
    ELSE d

\* lines 144-176: Check 3
AfterBusinessRules(d, predicted_category, business_type, business_domain, allowed_domains) ==
    IF business_type = "single_domain"
    THEN IF predicted_category # business_domain /\ predicted_category # "unknown"
         THEN [d EXCEPT
                 !.is_allowed = FALSE,
                 !.decision = "domain_mismatch",
                 !.reason = [text |-> "Content category {} does not match business domain {}",
                             category |-> predicted_category, domain |-> business_domain],
                 !.severity = "medium",
                 !.warning_message = "Your business is registered for {} domain. Please post only domain-specific content.",
                 !.suggested_action = "block"]
         ELSE [d EXCEPT
                 !.is_allowed = TRUE,
                 !.decision = "approved",
                 !.reason = [text |-> "Content matches business domain"]]
    ELSE IF business_type = "marketplace"
    THEN IF /\ allowed_domains # <<>>
            /\ predicted_category \notin SeqRange(allowed_domains)
            /\ predicted_category # "unknown"
         THEN [d EXCEPT
                 !.requires_review = TRUE,
                 !.reason = [text |-> "Content category {} is not in allowed domains",
                             category |-> predicted_category],
                 !.severity = "low",
                 !.warning_message = "Content about {} requires review for marketplace listing.",
                 !.suggested_action = "review"]
         ELSE [d EXCEPT
                 !.is_allowed = TRUE,
                 !.decision = "approved",
                 !.reason = [text |-> "Content allowed for marketplace"]]
    ELSE [d EXCEPT
            !.is_allowed = TRUE,
            !.decision = "approved",
            !.reason = [text |-> "Content approved for multi-domain business"]]

\* mutant: a confidence of exactly 0.6 is not borderline
AfterBorderline_Exclusive(d, predicted_category, confidence) ==
    IF ~FracLess(confidence, LowConfidence) /\ FracLess(confidence, BorderlineConfidence)
    THEN [d EXCEPT
            !.requires_review = TRUE,
            !.reason = [text |-> "Borderline confidence ({:.2f}) for category {}",
                        confidence |-> Format2f(confidence), category |-> predicted_category],
            !.warning_message = "Content classification is uncertain. Requires manual verification.",
            !.suggested_action = "review"]
    ELSE d

\* lines 178-183: Check 4
AfterBorderline(d, predicted_category, confidence) ==
    IF ~FracLess(confidence, LowConfidence) /\ ~FracLess(BorderlineConfidence, confidence)
    THEN [d EXCEPT
            !.requires_review = TRUE,
            !.reason = [text |-> "Borderline confidence ({:.2f}) for category {}",
                        confidence |-> Format2f(confidence), category |-> predicted_category],
            !.warning_message = "Content classification is uncertain. Requires manual verification.",
            !.suggested_action = "review"]
    ELSE d

\* lines 185-188
FinalDecision(d) ==
    IF d.is_allowed /\ d.requires_review
    THEN [d EXCEPT !.decision = "needs_review", !.is_allowed = FALSE]
    ELSE d

\* DecisionEngine.make_decision on the policies pol
make_decision(pol, prediction_arg, profile_arg) ==
    IF profile_arg = NoneProfile
    THEN DecisionErrorDict("'NoneType' object has no attribute 'get'")
    ELSE LET predicted_category == Get(prediction_arg, "category", "unknown")
             confidence == Get(prediction_arg, "confidence", Frac(0))
             is_restricted == Get(prediction_arg, "is_restricted", FALSE)
             business_type == Get(profile_arg, "business_type", "single_domain")
             business_domain == Get(profile_arg, "business_domain", "")
             allowed_domains == Get(profile_arg, "allowed_domains", <<>>)
         IN  IF is_restricted
             THEN BlockedDecision(pol, predicted_category)
             ELSE FinalDecision(
                    AfterBorderline(
                      AfterBusinessRules(AfterLowConfidence(PendingDecision, confidence),
                                         predicted_category, business_type,
                                         business_domain, allowed_domains),
                      predicted_category, confidence))

\* CONFIDENCE_THRESHOLD of content-verification-service
CONFIDENCE_THRESHOLD == Frac(60000)

\* decide(business, prediction) of content-verification-service on the set
\* RESTRICTED read at import
decide(RESTRICTED, business, prediction_arg) ==
    IF FracLess(prediction_arg.confidence, CONFIDENCE_THRESHOLD)
    THEN [status |-> "WARN", reason |-> "Low confidence classification",
          prediction |-> prediction_arg]
    ELSE IF business.business_type = "SingleDomain"
    THEN IF prediction_arg.domain = business.allowed_domains[1]
         THEN [status |-> "ALLOW", prediction |-> prediction_arg]
         ELSE [status |-> "BLOCK", reason |-> "Domain mismatch",
               prediction |-> prediction_arg]
    ELSE IF business.business_type = "Marketplace"
    THEN IF prediction_arg.domain \in RESTRICTED
         THEN [status |-> "BLOCK", reason |-> "Restricted marketplace category",
               prediction |-> prediction_arg]
         ELSE [status |-> "ALLOW", prediction |-> prediction_arg]
    ELSE [status |-> "BLOCK", reason |-> "Invalid business type"]
\* ------------------------------------------------------------------------
\* The engines as a state machine: a policy file, one prediction and one
\* business profile are drawn; the engine is constructed and the service
\* module imported; each decides once, while add_restricted_category runs
\* step by step on the engine
\* ------------------------------------------------------------------------
EngineCategories == {"food", "weapons", "harmful_chemicals", "unknown", "Automobile"}

EngineConfValues == {0, 29999, 30000, 50000, 60000, 90000}

\* predictions as the classifiers and the fuser flag them: a category of the
\* image classifier's restricted list is always flagged
EnginePredictions ==
    {[category |-> c, confidence |-> Frac(v), is_restricted |-> r] :
        c \in EngineCategories, v \in EngineConfValues,
        r \in {TRUE, FALSE}} \ 
    {[category |-> c, confidence |-> Frac(v), is_restricted |-> FALSE] :
        c \in ImageRestricted, v \in EngineConfValues}

\* the single_domain food business and the marketplace of
\* database/business_profiles.py, a multi_domain business, B001 and B002 of
\* content-verification-service, and no profile
EngineProfiles ==
    {[business_type |-> "single_domain", business_domain |-> "food",
      allowed_domains |-> <<"food">>],
     [business_type |-> "marketplace", business_domain |-> "multi",
      allowed_domains |-> <<"tech", "fashion", "electronics", "home">>],
     [business_type |-> "multi_domain", business_domain |-> "food",
      allowed_domains |-> <<"food", "tech">>],
     [business_type |-> "SingleDomain", allowed_domains |-> <<"Automobile">>],
     [business_type |-> "Marketplace", allowed_domains |-> <<"Electronics", "Fashion">>,
      restricted_domains |-> <<>>],
     NoneProfile}

\* arguments of add_restricted_category
UpdateCategories == {"harmful_chemicals", "weapons"}

UpdateSeverities == {"high", "medium", "low"}

NotConstructed == [constructed |-> FALSE]

NoDecision == [decision |-> "<no decision>"]

EngineInit ==
    /\ policy_file \in {ValidFile(FilePolicies), MissingFile, CorruptFile}
    /\ policies = NotConstructed
    /\ service = [state |-> "not imported"]
    /\ content_prediction \in EnginePredictions
    /\ business_profile \in EngineProfiles
    /\ decision = NoDecision
    /\ service_decision = NoDecision
    /\ update \in [category : UpdateCategories, severity : UpdateSeverities, pc : {"call"}]
    /\ AnalyzerNotInUse
    /\ FusionNotInUse
    /\ DBNotInUse
    /\ HttpNotInUse

\* DecisionEngine.__init__ (lines 17-43)
DecisionEngine_init ==
    /\ policies = NotConstructed
    /\ policies' = load_policies(policy_file)
    /\ UNCHANGED <<policy_file, service, content_prediction, business_profile,
                   decision, service_decision, update, analyzer_vars, fusion_vars, db_vars, http_vars>>

\* import of content-verification-service/policy/decision_engine.py (lines
\* 1-8): open() and json.load() are not guarded
import_service ==
    /\ service.state = "not imported"
    /\ service' = IF policy_file.state = "valid"
                  THEN [state |-> "imported",
                        RESTRICTED |-> SeqRange(policy_file.content.restricted_categories)]
                  ELSE [state |-> "import failed"]
    /\ UNCHANGED <<policy_file, policies, content_prediction, business_profile,
                   decision, service_decision, update, analyzer_vars, fusion_vars, db_vars, http_vars>>

\* decision_engine.make_decision(content_prediction, business_profile)
Call_make_decision ==
    /\ policies # NotConstructed
    /\ decision = NoDecision
    /\ decision' = make_decision(policies, content_prediction, business_profile)
    /\ UNCHANGED <<policy_file, policies, service, content_prediction, business_profile,
                   service_decision, update, analyzer_vars, fusion_vars, db_vars, http_vars>>

\* decide(business, prediction) of the imported service module
Call_decide ==
    /\ service.state = "imported"
    /\ business_profile # NoneProfile
    /\ service_decision = NoDecision
    /\ service_decision' =
          decide(service.RESTRICTED, business_profile,
                 [domain |-> content_prediction.category,
                  confidence |-> content_prediction.confidence])
    /\ UNCHANGED <<policy_file, policies, service, content_prediction, business_profile,
                   decision, update, analyzer_vars, fusion_vars, db_vars, http_vars>>

\* add_restricted_category, lines 244-245
add_restricted_category_append ==
    /\ policies # NotConstructed
    /\ update.pc = "call"
    /\ IF update.category \notin SeqRange(policies.restricted_categories)
       THEN /\ policies' = [policies EXCEPT
                              !.restricted_categories = Append(@, update.category)]
            /\ update' = [update EXCEPT !.pc = "appended"]
       ELSE /\ update' = [update EXCEPT !.pc = "skipped"]
            /\ UNCHANGED policies
    /\ UNCHANGED <<policy_file, service, content_prediction, business_profile,
                   decision, service_decision, analyzer_vars, fusion_vars, db_vars, http_vars>>

\* add_restricted_category, lines 247-255
add_restricted_category_severity ==
    /\ update.pc = "appended"
    /\ policies' =
          IF update.severity = "high"
          THEN [policies EXCEPT !.high_risk_categories = Append(@, update.category)]
          ELSE IF update.severity = "medium"
          THEN [policies EXCEPT !.medium_risk_categories = Append(@, update.category)]
          ELSE policies
    /\ update' = [update EXCEPT !.pc = "mapped"]
    /\ UNCHANGED <<policy_file, service, content_prediction, business_profile,
                   decision, service_decision, analyzer_vars, fusion_vars, db_vars, http_vars>>

\* add_restricted_category, line 257: _save_policies (lines 260-267)
add_restricted_category_save ==
    /\ update.pc = "mapped"
    /\ policy_file' = ValidFile(policies)
    /\ update' = [update EXCEPT !.pc = "done"]
    /\ UNCHANGED <<policies, service, content_prediction, business_profile,
                   decision, service_decision, analyzer_vars, fusion_vars, db_vars, http_vars>>

EngineNext ==
    \/ DecisionEngine_init
    \/ import_service
    \/ Call_make_decision
    \/ Call_decide
    \/ add_restricted_category_append
    \/ add_restricted_category_severity
    \/ add_restricted_category_save

SpecEngine == EngineInit /\ [][EngineNext]_vars
\* ------------------------------------------------------------------------
\* C16: a missing or corrupt policy file is fatal at construction / import:
\* no decision engine instance exists and no decision is produced after a
\* failed policy load, and there is no fallback to a built-in policy.
\* ------------------------------------------------------------------------
C16_InvalidPolicyFileIsFatal ==
    policy_file.state # "valid"
    => /\ policies = NotConstructed
       /\ decision = NoDecision
       /\ service.state # "imported"
       /\ service_decision = NoDecision

\* ------------------------------------------------------------------------
\* C17: a decision evaluation is side-effect free: the fuser step of
\* verify_mixed (like make_decision and analyze_content) leaves the input
\* prediction dictionaries, the weights, the policy configuration and the
\* business profiles unchanged.
\* ------------------------------------------------------------------------
C17_EvaluationLeavesInputsUnchanged ==
    [][UNCHANGED <<text_result, image_results, fusion_weights,
                   policies, policy_file, business_profile, profiles_file>>]_vars

\* ------------------------------------------------------------------------
\* C18: a make_decision call that runs concurrently with
\* add_restricted_category reports, for the category being added, the
\* severity it would report entirely before or entirely after the update,
\* never one produced by a partially applied update.
\* ------------------------------------------------------------------------
\* the policies the engine was constructed with: the loaded policies whose
\* restricted list the current one extends
IsPrefix(a, b) == Len(a) <= Len(b) /\ SubSeq(b, 1, Len(a)) = a

PoliciesBeforeUpdate ==
    CHOOSE b \in {load_policies(MissingFile), load_policies(ValidFile(FilePolicies))} :
        IsPrefix(b.restricted_categories, policies.restricted_categories)

\* add_restricted_category(category, severity) applied as a whole
PoliciesAfterUpdate ==
    LET b == PoliciesBeforeUpdate
        c == update.category
    IN  IF c \in SeqRange(b.restricted_categories) THEN b
        ELSE [restricted_categories |-> Append(b.restricted_categories, c),
              high_risk_categories |->
                  IF update.severity = "high" THEN Append(b.high_risk_categories, c)
                  ELSE b.high_risk_categories,
              medium_risk_categories |->
                  IF update.severity = "medium" THEN Append(b.medium_risk_categories, c)
                  ELSE b.medium_risk_categories]

C18_ConsistentPolicySnapshot ==
    (decision.decision = "blocked" /\ content_prediction.category = update.category)
    => decision.severity \in
          {get_severity_level(PoliciesBeforeUpdate, update.category),
           get_severity_level(PoliciesAfterUpdate, update.category)}

\* ------------------------------------------------------------------------
\* C19: both engines reject content whose predicted category is in the
\* policy's restricted_categories, for every business type and every
\* confidence value: make_decision returns 'blocked' with is_allowed =
\* false, and decide() returns 'BLOCK', never 'ALLOW' or 'WARN'.
\* ------------------------------------------------------------------------
C19_RestrictedCategoryBlocked ==
    /\ (/\ decision # NoDecision
        /\ business_profile # NoneProfile
        /\ content_prediction.category \in SeqRange(PoliciesBeforeUpdate.restricted_categories))
       => (decision.decision = "blocked" /\ ~decision.is_allowed)
    /\ (/\ service_decision # NoDecision
        /\ content_prediction.category \in service.RESTRICTED)
       => service_decision.status = "BLOCK"

\* ------------------------------------------------------------------------
\* C20: make_decision never approves a prediction whose category is
\* 'unknown': for every business type and every confidence value the result
\* has is_allowed = false and is routed to manual review (or, for a
\* prediction flagged restricted, blocked).
\* ------------------------------------------------------------------------
C20_UnknownNeverApproved ==
    (decision # NoDecision /\ content_prediction.category = "unknown")
    => /\ ~decision.is_allowed
       /\ decision.requires_review \/ decision.decision = "blocked"

\* ------------------------------------------------------------------------
\* C22: fuse_predictions normalises the weights so that they add up to 1
\* (0.5/0.5 when both are zero); per canonical category the text contributes
\* confidence * text_weight and each of the n images confidence *
\* image_weight / n; the fused category is a canonical category of highest
\* accumulated score, the fused confidence is that score, and it lies in
\* [0, 1].
\* ------------------------------------------------------------------------
\* fuse_predictions ran to its end on a text prediction and dictionary (or
\* default) weights
FusedNormally ==
    /\ fusion_op = "fuse_predictions" \/ (fusion_op = "verify_mixed" /\ image_results # <<>>)
    /\ text_result # NoTextResult
    /\ fusion_weights.kind \in {"None", "dict"}

\* the weights (text, image) as the claim states them, before division by
\* their sum
StatedWeights ==
    IF fusion_weights.kind = "None" THEN <<6, 4>>
    ELSE IF fusion_weights.text + fusion_weights.image = 0 THEN <<1, 1>>
    ELSE <<fusion_weights.text, fusion_weights.image>>

ImageCount == IF image_results = <<>> THEN 1 ELSE Len(image_results)

\* the accumulated score of canonical category c, times the sum of the
\* weights, times the number of images
StatedScore(c) ==
    (IF FusionAlias(text_result.category) = c
     THEN text_result.confidence.num * StatedWeights[1] * ImageCount ELSE 0)
    + SumSeq([i \in DOMAIN image_results |->
                IF FusionAlias(image_results[i].category) = c
                THEN image_results[i].confidence.num * StatedWeights[2] ELSE 0])

StatedDenominator == (StatedWeights[1] + StatedWeights[2]) * ImageCount

CanonicalCategories ==
    {FusionAlias(text_result.category)}
        \cup {FusionAlias(image_results[i].category) : i \in DOMAIN image_results}

C22_WeightedScoreFusion ==
    FusedNormally
    => /\ LET w == prediction.fusion_weights
          IN  w.text.num * w.image.den + w.image.num * w.text.den = w.text.den * w.image.den
       /\ prediction.category \in CanonicalCategories
       /\ \A c \in CanonicalCategories : StatedScore(c) <= StatedScore(prediction.category)
       /\ FracEq(prediction.confidence,
                 [num |-> StatedScore(prediction.category), den |-> StatedDenominator])
       /\ 0 <= prediction.confidence.num
       /\ prediction.confidence.num <= 100000 * prediction.confidence.den

\* food text at 0.5 against two weapons images at 0.9: weapons at 0.36
C22_Witness ==
    /\ FusedNormally
    /\ fusion_weights = NoWeights
    /\ text_result.category = "food"
    /\ text_result.confidence = Frac(50000)
    /\ Len(image_results) = 2
    /\ \A i \in DOMAIN image_results :
          image_results[i].category = "weapons" /\ image_results[i].confidence = Frac(90000)
    /\ prediction.category = "weapons"
    /\ FracEq(prediction.confidence, Frac(36000))

\* ------------------------------------------------------------------------
\* C23: when several canonical categories share the highest accumulated
\* score, fuse_predictions returns the one inserted first (the text's mapped
\* category, then the images' in list order); when several images share the
\* maximum confidence on the image-only path, the first in the list is
\* returned.
\* ------------------------------------------------------------------------
\* position of canonical category c in insertion order
InsertionRank(c) ==
    IF FusionAlias(text_result.category) = c THEN 0
    ELSE CHOOSE i \in DOMAIN image_results :
            /\ FusionAlias(image_results[i].category) = c
            /\ \A j \in DOMAIN image_results :
                  FusionAlias(image_results[j].category) = c => i <= j

\* verify_mixed took the image-only path
ImageOnlySelected ==
    /\ fusion_op = "verify_mixed"
    /\ text_result = NoTextResult
    /\ image_results # <<>>

\* the image that verify_mixed tagged and returned
SelectedImage == CHOOSE k \in DOMAIN image_results : "source" \in DOMAIN image_results[k]

C23_FirstInsertedWinsTies ==
    /\ FusedNormally
         => \A c \in CanonicalCategories :
               StatedScore(c) = StatedScore(prediction.category)
               => InsertionRank(prediction.category) <= InsertionRank(c)
    /\ ImageOnlySelected
         => /\ prediction = image_results[SelectedImage]
            /\ \A j \in DOMAIN image_results :
                  /\ image_results[j].confidence.num
                        <= image_results[SelectedImage].confidence.num
                  /\ j < SelectedImage
                        => image_results[j].confidence.num
                              < image_results[SelectedImage].confidence.num

\* equal weights, a food text and a weapons image both at 0.5: food wins
C23_Witness ==
    /\ FusedNormally
    /\ fusion_weights = DictWeight(0, 0)
    /\ text_result.category = "food"
    /\ Len(image_results) = 1
    /\ image_results[1].category = "weapons"
    /\ StatedScore("food") = StatedScore("weapons")
    /\ prediction.category = "food"

\* ------------------------------------------------------------------------
\* C28: given input predictions whose is_restricted flags follow from their
\* raw categories, whenever the category fuse_predictions returns is a
\* restricted category the returned is_restricted flag is true, also when
\* the restricted canonical category was reached through the alias mapping
\* (such as 'medicine' -> 'drugs').
\* ------------------------------------------------------------------------
C28_RestrictedCategoryIsFlagged ==
    (FusedNormally /\ prediction.category \in ImageRestricted)
    => prediction.is_restricted

\* ------------------------------------------------------------------------
\* C26: every result of make_decision with is_allowed = true has decision
\* 'approved' and requires_review = false, and comes from a prediction with
\* is_restricted = false and a confidence strictly above 0.6; no result has
\* is_allowed = true together with requires_review = true.
\* ------------------------------------------------------------------------
C26_AllowedImpliesConfidentApproval ==
    (decision # NoDecision /\ decision.is_allowed)
    => /\ decision.decision = "approved"
       /\ ~decision.requires_review
       /\ ~content_prediction.is_restricted
       /\ content_prediction.confidence.num > 60000 * content_prediction.confidence.den

\* food content at 0.9 posted by the single-domain food business
C26_Witness ==
    /\ decision # NoDecision
    /\ decision.is_allowed
    /\ decision.decision = "approved"
    /\ business_profile # NoneProfile
    /\ business_profile.business_type = "single_domain"
    /\ content_prediction.category = "food"
    /\ content_prediction.confidence = Frac(90000)

\* ------------------------------------------------------------------------
\* C27: for every business type, allowed-domain list, category and
\* confidence, the 'decision' field make_decision returns is one of
\* 'approved', 'blocked', 'domain_mismatch', 'needs_review' or 'error', never
\* the initial placeholder 'pending'.
\* ------------------------------------------------------------------------
C27_DecisionIsResolved ==
    decision # NoDecision
    => decision.decision \in {"approved", "blocked", "domain_mismatch", "needs_review", "error"}


\* ========================================================================
\* The profile store: database/business_profiles.py
\*
\* A profile is a dictionary: a function from its keys to their values.
\* self.profiles is a function from the ids stored to the profiles.
\* ========================================================================

\* the number of calls made on one store
MaxCalls == 3

\* _load_profiles, lines 33-70
default_profiles ==
    [B001 |-> [id |-> "B001", business_name |-> "Tech Solutions Inc",
               business_type |-> "single_domain", business_domain |-> "tech",
               allowed_domains |-> <<"tech">>, is_verified |-> TRUE,
               verification_date |-> "2024-01-15", registration_number |-> "TECH001",
               owner_id |-> "U001", created_at |-> "2024-01-01"],
     B002 |-> [id |-> "B002", business_name |-> "Food Paradise",
               business_type |-> "single_domain", business_domain |-> "food",
               allowed_domains |-> <<"food">>, is_verified |-> TRUE,
               verification_date |-> "2024-01-20", registration_number |-> "FOOD001",
               owner_id |-> "U002", created_at |-> "2024-01-05"],
     B003 |-> [id |-> "B003", business_name |-> "Marketplace Hub",
               business_type |-> "marketplace", business_domain |-> "multi",
               allowed_domains |-> <<"tech", "fashion", "electronics", "home">>,
               is_verified |-> TRUE,
               verification_date |-> "2024-01-25", registration_number |-> "MKT001",
               owner_id |-> "U003", created_at |-> "2024-01-10"]]

\* a profile an earlier run of the service created and saved
SavedProfile ==
    [id |-> "B004", business_name |-> "Corner Shop",
     business_type |-> "single_domain", business_domain |-> "food",
     allowed_domains |-> <<"food">>, is_verified |-> FALSE,
     created_at |-> "2024-01-01"]

\* the file at db_path when the store is constructed: absent, unreadable,
\* or what _save_profiles wrote in an earlier run
DBFiles ==
    {MissingFile, CorruptFile, ValidFile(DictUpdate(default_profiles, [B004 |-> SavedProfile]))}

\* _load_profiles, lines 72-82: the file's profiles are merged over the
\* defaults; a missing or unreadable file leaves the defaults
load_profiles(file) ==
    IF file.state = "valid"
    THEN DictUpdate(default_profiles, file.content)
    ELSE default_profiles

\* get_profile, line 94: self.profiles.get(business_id)
get_profile(profiles, id) ==
    IF id \in DOMAIN profiles THEN profiles[id] ELSE NoneProfile

\* f"B{n:03d}", line 125
GeneratedId(n) ==
    IF n < 10 THEN "B00" \o ToString(n)
    ELSE IF n < 100 THEN "B0" \o ToString(n)
    ELSE "B" \o ToString(n)

\* dict.setdefault(key, value)
SetDefault(d, key, value) ==
    IF key \in DOMAIN d THEN d ELSE DictUpdate(d, (key :> value))

\* line 129
required_fields == <<"business_name", "business_type", "business_domain">>

\* lines 122-126: profile_data once the id is settled ("not business_id"
\* holds for a missing id, for None and for "")
WithId(profiles, profile_data) ==
    IF Get(profile_data, "id", None) \in {None, ""}
    THEN DictUpdate(profile_data, ("id" :> GeneratedId(Cardinality(DOMAIN profiles) + 1)))
    ELSE profile_data

\* lines 130-132: a required field is missing
MissingRequired(profile_data) ==
    \E i \in 1..Len(required_fields) : required_fields[i] \notin DOMAIN profile_data

\* lines 135-137: the defaults of the optional fields
WithDefaults(profile_data) ==
    SetDefault(
        SetDefault(
            SetDefault(profile_data, "is_verified", FALSE),
            "allowed_domains", <<profile_data.business_domain>>),
        "created_at", "2024-01-01")

\* the dictionaries passed to create_profile
CreateInputs ==
    {DictUpdate(DictUpdate(DictUpdate(base, id), type), allowed) :
        base \in {[business_name |-> "Shop", business_domain |-> "food"],
                  [business_name |-> "Shop", business_domain |-> "tech"]},
        id \in {<<>>, [id |-> "B002"], [id |-> "S001"]},
        type \in {[business_type |-> "single_domain"], [business_type |-> "marketplace"]},
        allowed \in {<<>>, [allowed_domains |-> <<"food", "tech">>]}}
    \cup {[business_type |-> "single_domain", business_domain |-> "food"]}

\* the ids passed to update_profile, verify_business and delete_profile
CallIds == {"B001", "B003", "B004", "B404"}

\* the dictionaries passed to update_profile
UpdateInputs ==
    {[business_domain |-> "food"],
     [allowed_domains |-> <<"food", "tech">>],
     [business_type |-> "single_domain"],
     [business_name |-> "Renamed", is_verified |-> FALSE]}

\* BusinessProfileDB.__init__
DBInit ==
    /\ db_file \in DBFiles
    /\ db_profiles = load_profiles(db_file)
    /\ db_op = [name |-> "__init__"]
    /\ db_calls = 0
    /\ AnalyzerNotInUse
    /\ FusionNotInUse
    /\ EngineNotInUse
    /\ HttpNotInUse

\* _save_profiles, lines 228-235, on a writable db_path
save_profiles(profiles) == ValidFile(profiles)

\* create_profile, lines 111-151.  The caller's dictionary is completed in
\* place and is the object stored and returned.
create_profile ==
    /\ db_calls < MaxCalls
    /\ db_calls' = db_calls + 1
    /\ \E argument \in CreateInputs :
         LET with_id == WithId(db_profiles, argument)
         IN  IF MissingRequired(with_id)
             THEN /\ db_op' = [name |-> "create_profile", argument |-> argument,
                               profile_data |-> with_id, returned |-> NoneProfile]
                  /\ UNCHANGED <<db_profiles, db_file>>
             ELSE LET profile_data == WithDefaults(with_id)
                  IN  /\ db_profiles' = DictUpdate(db_profiles, (profile_data.id :> profile_data))
                      /\ db_file' = save_profiles(db_profiles')
                      /\ db_op' = [name |-> "create_profile", argument |-> argument,
                                   profile_data |-> profile_data, returned |-> profile_data]
    /\ UNCHANGED <<analyzer_vars, fusion_vars, engine_vars, http_vars>>

\* update_profile, lines 153-182
update_profile ==
    /\ db_calls < MaxCalls
    /\ db_calls' = db_calls + 1
    /\ \E id \in CallIds, updates \in UpdateInputs :
         IF id \notin DOMAIN db_profiles
         THEN /\ db_op' = [name |-> "update_profile", business_id |-> id,
                           updates |-> updates, returned |-> NoneProfile]
              /\ UNCHANGED <<db_profiles, db_file>>
         ELSE /\ db_profiles' = [db_profiles EXCEPT
                                   ![id] = DictUpdate(db_profiles[id], updates)]
              /\ db_file' = save_profiles(db_profiles')
              /\ db_op' = [name |-> "update_profile", business_id |-> id,
                           updates |-> updates, returned |-> db_profiles'[id]]
    /\ UNCHANGED <<analyzer_vars, fusion_vars, engine_vars, http_vars>>

\* delete_profile, lines 184-204
delete_profile ==
    /\ db_calls < MaxCalls
    /\ db_calls' = db_calls + 1
    /\ \E id \in CallIds :
         IF id \in DOMAIN db_profiles
         THEN /\ db_profiles' = [i \in DOMAIN db_profiles \ {id} |-> db_profiles[i]]
              /\ db_file' = save_profiles(db_profiles')
              /\ db_op' = [name |-> "delete_profile", business_id |-> id,
                           returned |-> TRUE]
         ELSE /\ db_op' = [name |-> "delete_profile", business_id |-> id,
                           returned |-> FALSE]
              /\ UNCHANGED <<db_profiles, db_file>>
    /\ UNCHANGED <<analyzer_vars, fusion_vars, engine_vars, http_vars>>

\* verify_business, lines 241-261
verify_business ==
    /\ db_calls < MaxCalls
    /\ db_calls' = db_calls + 1
    /\ \E id \in CallIds :
         IF id \in DOMAIN db_profiles
         THEN /\ db_profiles' = [db_profiles EXCEPT ![id] =
                                   DictUpdate(db_profiles[id], [is_verified |-> TRUE])]
              /\ db_file' = save_profiles(db_profiles')
              /\ db_op' = [name |-> "verify_business", business_id |-> id,
                           returned |-> TRUE]
         ELSE /\ db_op' = [name |-> "verify_business", business_id |-> id,
                           returned |-> FALSE]
              /\ UNCHANGED <<db_profiles, db_file>>
    /\ UNCHANGED <<analyzer_vars, fusion_vars, engine_vars, http_vars>>

DBNext ==
    \/ create_profile
    \/ update_profile
    \/ delete_profile
    \/ verify_business

SpecDB == DBInit /\ [][DBNext]_vars

\* ------------------------------------------------------------------------
\* C24: after any sequence of create_profile, update_profile,
\* verify_business and delete_profile calls, every stored profile of
\* business_type 'single_domain' has an allowed_domains list with exactly
\* one element, equal to its business_domain.
\* ------------------------------------------------------------------------
C24_SingleDomainAllowsOnlyItsDomain ==
    \A i \in DOMAIN db_profiles :
        db_profiles[i].business_type = "single_domain"
        => db_profiles[i].allowed_domains = <<db_profiles[i].business_domain>>

\* ------------------------------------------------------------------------
\* C25: business ids are unique and creation never destroys data: a
\* create_profile call that supplies no id and stores a profile assigns an
\* id that was not in the store, makes the store one profile larger, and
\* leaves every profile stored before as it was.
\* ------------------------------------------------------------------------
C25_CreateAssignsFreshId ==
    [][(/\ db_calls' = db_calls + 1
        /\ db_op'.name = "create_profile"
        /\ "id" \notin DOMAIN db_op'.argument
        /\ db_op'.returned # NoneProfile)
       => /\ db_op'.returned.id \notin DOMAIN db_profiles
          /\ Cardinality(DOMAIN db_profiles') = Cardinality(DOMAIN db_profiles) + 1
          /\ \A i \in DOMAIN db_profiles :
                i \in DOMAIN db_profiles' /\ db_profiles'[i] = db_profiles[i]]_vars


\* ========================================================================
\* The HTTP front-end: main.py
\*
\* The handlers are coroutines of one event loop: a handler runs until it
\* reaches "await image.read()", where other handlers may run, and from
\* there to the next await or to its response.  A file of /tmp is an
\* identity of its own: a name can be unlinked while a handle on the file
\* is still open.
\* ========================================================================

\* the uploads of one request
MaxUploads == 2

\* the requests in flight together
Requests == {"r1", "r2"}

\* image.filename of the uploads
FileNames == {"a.png", "b.png"}

\* the bytes of an upload; the image classifier's output is a function of them
ImageContents == {"<photo of a meal>", "<photo of a rifle>"}

\* what open(path, "wb") leaves in the file before anything is written
EmptyFile == ""

\* line 123: temp_path = f"/tmp/{image.filename}"
TempPath(filename) == "/tmp/" \o filename

\* the upload lists: no two files of one request share a name
UploadLists ==
    {ups \in UNION {[1..n -> [filename : FileNames, content : ImageContents]] : n \in 0..MaxUploads} :
        \A i, j \in DOMAIN ups : i # j => ups[i].filename # ups[j].filename}

\* the optional business_id form field of /verify/image and /verify/mixed
OptionalBusinessIds == {None, "B002"}

\* the required business_id of /verify/business and /business/{business_id};
\* B004 is stored only when the file at db_path holds it
RequiredBusinessIds == {"B002", "B004"}

\* what text_classifier.predict returns for the required text of /verify/mixed
FormText == TextPred("food", 90000)

\* ImageClassifier.predict (image_classifier.py lines 84-132) on the decoded image
ImageClassOf(content) ==
    IF content = "<photo of a rifle>" THEN ImagePred("weapons", 90000) ELSE ImagePred("food", 90000)

\* the error dictionary of predict_from_path (lines 155-160, 174-179)
ImageErrorPred(msg) ==
    [category |-> "unknown", confidence |-> Frac(0), is_restricted |-> FALSE, error |-> msg]

\* ImageClassifier.predict_from_path (lines 143-179) in the file system
\* (dir, data); image features, sizes and file_size are left out
predict_from_path(dir, data, image_path) ==
    IF image_path \notin DOMAIN dir
    THEN ImageErrorPred("Image not found: " \o image_path)
    ELSE IF data[dir[image_path]] = EmptyFile
    THEN ImageErrorPred("cannot identify image file")
    ELSE DictUpdate(ImageClassOf(data[dir[image_path]]), [image_path |-> image_path])

\* the policies of the DecisionEngine() of the API, built without a policy file
ApiPolicies == load_policies(MissingFile)

\* "decision = None; if business_profile: decision = make_decision(...)"
ApiDecision(pred, profile) ==
    IF profile # NoneProfile THEN make_decision(ApiPolicies, pred, profile) ELSE NoDecision

\* ContentVerificationAPI.verify_image (verify_content.py lines 124-167);
\* the timestamp is left out
api_verify_image(dir, data, image_path, profile) ==
    LET image_result == predict_from_path(dir, data, image_path)
    IN  [content_type |-> "image", prediction |-> image_result,
         decision |-> ApiDecision(image_result, profile),
         business_context |-> profile # NoneProfile]

\* verify_mixed lines 196-201: the predictions of the paths that exist
ImageResults(dir, data, image_paths) ==
    LET existing == SelectSeq(image_paths, LAMBDA path : path \in DOMAIN dir)
    IN  [i \in DOMAIN existing |-> predict_from_path(dir, data, existing[i])]

\* verify_mixed lines 203-227: the prediction
MixedPrediction(text_prediction, image_predictions) ==
    IF text_prediction # NoTextResult /\ image_predictions # <<>>
    THEN DictUpdate(fuse_predictions(text_prediction, image_predictions, DictWeight(6, 4)),
                    [source_predictions |-> [text |-> text_prediction, images |-> image_predictions]])
    ELSE IF text_prediction # NoTextResult THEN TaggedTextOnly(text_prediction)
    ELSE IF image_predictions # <<>>
    THEN TaggedImageOnly(image_predictions[MaxConfidenceImage(image_predictions)])
    ELSE EmptyPrediction

\* ContentVerificationAPI.verify_mixed (lines 169-255); the timestamp is left out
api_verify_mixed(dir, data, text_prediction, image_paths, profile) ==
    LET pred == MixedPrediction(text_prediction, ImageResults(dir, data, image_paths))
    IN  [content_type |-> "mixed", prediction |-> pred,
         decision |-> ApiDecision(pred, profile),
         business_context |-> profile # NoneProfile,
         components |-> [has_text |-> text_prediction # NoTextResult,
                         has_images |-> image_paths # <<>>,
                         image_count |-> Len(image_paths)]]

\* ContentVerificationAPI.verify_for_business (lines 260-305)
api_verify_for_business(dir, data, text_prediction, image_paths, profile) ==
    DictUpdate(api_verify_mixed(dir, data, text_prediction, image_paths, profile),
               [business_info |->
                   [business_id |-> Get(profile, "id", None),
                    business_name |-> Get(profile, "business_name", None),
                    business_type |-> Get(profile, "business_type", None),
                    business_domain |-> Get(profile, "business_domain", None),
                    allowed_domains |-> Get(profile, "allowed_domains", <<>>)]])

\* the response of a handler that returns
Ok(data) == [status_code |-> 200, body |-> [success |-> TRUE, data |-> data]]

\* the response FastAPI builds from a raised HTTPException
HTTPException(status_code, detail) == [status_code |-> status_code, detail |-> detail]

\* str(e) of an HTTPException
StrHTTPException(e) == ToString(e.status_code) \o ": " \o e.detail

\* lines 238-239 and 288-289 inside "try: ... except Exception as e: raise
\* HTTPException(status_code=500, detail=str(e))" (lines 271-273, 296-298):
\* HTTPException is an Exception, so the handler's own 404 is caught
NotFoundResponse ==
    HTTPException(500, StrHTTPException(HTTPException(404, "Business not found")))

\* "business_profile = None; if business_id: business_profile = get_profile(...)"
FormProfile(bid) == IF bid = None THEN NoneProfile ELSE get_profile(db_profiles, bid)

\* a request the service has not received yet
Idle == [pc |-> "idle"]

\* a request whose handler is suspended in "await image.read()" of upload k,
\* inside "with open(temp_path, 'wb') as buffer" on the file handle
Reading(endpoint, bid, text_prediction, uploads, k, handle) ==
    [pc |-> "await image.read()", endpoint |-> endpoint, business_id |-> bid,
     text_result |-> text_prediction, uploads |-> uploads, k |-> k, handle |-> handle]

\* a request that was answered
Answered(endpoint, bid, text_prediction, uploads, response) ==
    [pc |-> "done", endpoint |-> endpoint, business_id |-> bid,
     text_result |-> text_prediction, uploads |-> uploads, response |-> response]

\* the paths of the uploads
TempPaths(uploads) == [i \in DOMAIN uploads |-> TempPath(uploads[i].filename)]

\* open(temp_path, "wb") by request r for its upload k: an existing file is
\* truncated, a missing one is created
OpenedFile(r, k, temp_path) ==
    IF temp_path \in DOMAIN tmp_files THEN tmp_files[temp_path] ELSE <<r, k>>

OpenDir(r, k, temp_path) == DictUpdate(tmp_files, (temp_path :> OpenedFile(r, k, temp_path)))

OpenData(data, r, k, temp_path) == DictUpdate(data, (OpenedFile(r, k, temp_path) :> EmptyFile))

\* os.remove of every path of temp_paths, errors ignored
Removed(dir, temp_paths) == [path \in DOMAIN dir \ SeqRange(temp_paths) |-> dir[path]]

\* the call of the content API each handler makes once its uploads are saved
ApiResult(dir, data, endpoint, text_prediction, uploads, profile) ==
    CASE endpoint = "/verify/image" ->
           api_verify_image(dir, data, TempPath(uploads[1].filename), profile)
      [] endpoint = "/verify/mixed" ->
           api_verify_mixed(dir, data, text_prediction, TempPaths(uploads), profile)
      [] endpoint = "/verify/business" ->
           api_verify_for_business(dir, data, text_prediction, TempPaths(uploads), profile)

\* a handler from its entry to its first await: the first file is opened
StartSaving(r, endpoint, bid, text_prediction, uploads) ==
    /\ requests' = [requests EXCEPT
                      ![r] = Reading(endpoint, bid, text_prediction, uploads, 1,
                                     OpenedFile(r, 1, TempPath(uploads[1].filename)))]
    /\ tmp_files' = OpenDir(r, 1, TempPath(uploads[1].filename))
    /\ file_data' = OpenData(file_data, r, 1, TempPath(uploads[1].filename))

\* POST /verify/image, lines 119-126
POST_verify_image ==
    /\ \E r \in Requests, bid \in OptionalBusinessIds, uploads \in UploadLists :
         /\ requests[r] = Idle
         /\ Len(uploads) = 1
         /\ StartSaving(r, "/verify/image", bid, NoTextResult, uploads)
    /\ UNCHANGED <<analyzer_vars, fusion_vars, engine_vars, db_vars>>

\* POST /verify/mixed, lines 173-182; images is a required field
POST_verify_mixed ==
    /\ \E r \in Requests, bid \in OptionalBusinessIds, uploads \in UploadLists :
         /\ requests[r] = Idle
         /\ Len(uploads) >= 1
         /\ StartSaving(r, "/verify/mixed", bid, FormText, uploads)
    /\ UNCHANGED <<analyzer_vars, fusion_vars, engine_vars, db_vars>>

\* POST /verify/business, lines 233-273, with the default text and title
\* (both empty): without a profile the handler is over before any file is
\* touched; without images it runs to its response
POST_verify_business ==
    /\ \E r \in Requests, bid \in RequiredBusinessIds, uploads \in UploadLists :
         /\ requests[r] = Idle
         /\ IF get_profile(db_profiles, bid) = NoneProfile
            THEN /\ requests' = [requests EXCEPT
                        ![r] = Answered("/verify/business", bid, NoTextResult, uploads,
                                        NotFoundResponse)]
                 /\ UNCHANGED <<tmp_files, file_data>>
            ELSE IF uploads = <<>>
            THEN /\ requests' = [requests EXCEPT
                        ![r] = Answered("/verify/business", bid, NoTextResult, uploads,
                                        Ok(ApiResult(tmp_files, file_data, "/verify/business",
                                                     NoTextResult, uploads,
                                                     get_profile(db_profiles, bid))))]
                 /\ UNCHANGED <<tmp_files, file_data>>
            ELSE StartSaving(r, "/verify/business", bid, NoTextResult, uploads)
    /\ UNCHANGED <<analyzer_vars, fusion_vars, engine_vars, db_vars>>

\* GET /business/{business_id}, lines 286-298
GET_business ==
    /\ \E r \in Requests, bid \in RequiredBusinessIds :
         /\ requests[r] = Idle
         /\ requests' = [requests EXCEPT
                ![r] = Answered("/business/{business_id}", bid, NoTextResult, <<>>,
                                IF get_profile(db_profiles, bid) = NoneProfile
                                THEN NotFoundResponse
                                ELSE Ok(get_profile(db_profiles, bid)))]
    /\ UNCHANGED <<tmp_files, file_data, analyzer_vars, fusion_vars, engine_vars, db_vars>>

\* a handler resumed after "await image.read()": the content is written and
\* the file closed; then either the next file is opened and read (the next
\* await), or the profile is fetched, the content API called, the temporary
\* files removed and the response returned
resume_after_read ==
    /\ \E r \in Requests :
         /\ requests[r].pc = "await image.read()"
         /\ LET q == requests[r]
                written == [file_data EXCEPT ![q.handle] = q.uploads[q.k].content]
            IN  IF q.k < Len(q.uploads)
                THEN LET temp_path == TempPath(q.uploads[q.k + 1].filename)
                     IN  /\ requests' = [requests EXCEPT
                                ![r] = Reading(q.endpoint, q.business_id, q.text_result, q.uploads,
                                               q.k + 1, OpenedFile(r, q.k + 1, temp_path))]
                         /\ tmp_files' = OpenDir(r, q.k + 1, temp_path)
                         /\ file_data' = OpenData(written, r, q.k + 1, temp_path)
                ELSE /\ requests' = [requests EXCEPT
                            ![r] = Answered(q.endpoint, q.business_id, q.text_result, q.uploads,
                                            Ok(ApiResult(tmp_files, written, q.endpoint,
                                                         q.text_result, q.uploads,
                                                         FormProfile(q.business_id))))]
                     /\ tmp_files' = Removed(tmp_files, TempPaths(q.uploads))
                     /\ file_data' = written
    /\ UNCHANGED <<analyzer_vars, fusion_vars, engine_vars, db_vars>>

\* the service after its start: the store is loaded, no request was
\* received and /tmp holds no file of the service
HttpInit ==
    /\ db_file \in DBFiles \ {CorruptFile}
    /\ db_profiles = load_profiles(db_file)
    /\ db_op = [name |-> "__init__"]
    /\ db_calls = 0
    /\ tmp_files = <<>>
    /\ file_data = <<>>
    /\ requests = [r \in Requests |-> Idle]
    /\ AnalyzerNotInUse
    /\ FusionNotInUse
    /\ EngineNotInUse

HttpNext ==
    \/ POST_verify_image
    \/ POST_verify_mixed
    \/ POST_verify_business
    \/ GET_business
    \/ resume_after_read

SpecHttp == HttpInit /\ [][HttpNext]_vars

\* the file system in which a request's uploads are the only files
OwnDir(uploads) == [path \in SeqRange(TempPaths(uploads)) |-> CHOOSE i \in DOMAIN uploads : TempPath(uploads[i].filename) = path]

OwnData(uploads) == [i \in DOMAIN uploads |-> uploads[i].content]

\* what the content API returns for a request's own uploads
OwnResult(q) ==
    ApiResult(OwnDir(q.uploads), OwnData(q.uploads), q.endpoint, q.text_result, q.uploads,
              FormProfile(q.business_id))

\* ------------------------------------------------------------------------
\* C21: requests handled concurrently do not interfere: every upload a
\* suspended request has saved is still at its path with its content, and
\* every request answered by /verify/image, /verify/mixed or /verify/business
\* got the prediction and the decision of its own uploads.
\* ------------------------------------------------------------------------
C21_ConcurrentRequestsDoNotInterfere ==
    \A r \in Requests :
        /\ requests[r].pc = "await image.read()"
           => \A j \in 1..(requests[r].k - 1) :
                 LET path == TempPath(requests[r].uploads[j].filename)
                 IN  /\ path \in DOMAIN tmp_files
                     /\ file_data[tmp_files[path]] = requests[r].uploads[j].content
        /\ (requests[r].pc = "done" /\ requests[r].response.status_code = 200
                /\ requests[r].endpoint # "/business/{business_id}")
           => requests[r].response.body.data = OwnResult(requests[r])

\* ------------------------------------------------------------------------
\* C30: POST /verify/business and GET /business/{business_id} answer with
\* status 404 and detail 'Business not found' whenever the store has no
\* profile for the business_id; never with a 500.
\* ------------------------------------------------------------------------
C30_UnknownBusinessIs404 ==
    \A r \in Requests :
        (/\ requests[r].pc = "done"
         /\ requests[r].endpoint \in {"/verify/business", "/business/{business_id}"}
         /\ requests[r].business_id \notin DOMAIN db_profiles)
        => requests[r].response = HTTPException(404, "Business not found")

====
